---- MODULE Spec2Model ----
(***************************************************************************)
(* Model of the smartcube_ble adapters (Giiker, GoCube, GAN, QiYi).        *)
(*                                                                         *)
(* Part 1 (Spec): the connection lifecycle of one adapter instance.  The   *)
(* adapters run on a single asyncio event loop, so a coroutine runs        *)
(* atomically from one await of a transport operation to the next.  Each   *)
(* action below is one such stretch: the awaited operation completes       *)
(* (successfully or with an exception), the synchronous code after it      *)
(* runs, and the next transport operation is issued on the client object   *)
(* that self._client names at that moment.                                 *)
(***************************************************************************)
EXTENDS Integers, Sequences, FiniteSets, TLC

\* ---------------------------------------------------------------- bounds
MaxClients == 2    \* transport clients establish_connection can hand out
MaxCalls == 2      \* connect()/disconnect() calls issued in one behaviour
MaxDrops == 1      \* transport-initiated closes in one behaviour
MaxFrames == 3     \* notifications delivered in one behaviour
MaxSubOps == 5     \* registry calls made in one behaviour
MaxRequests == 2   \* request_battery() calls issued in one behaviour
MaxReports == 2    \* system notifications delivered in one behaviour
MaxTurns == 2      \* moves applied to one CubieCube in one behaviour
MaxRepeats == 4    \* the same, when the moves are one move repeated

\* Two host tasks call connect()/disconnect(): the concurrency the adapter
\* contract speaks of is that of two callers on one instance.
Tasks == {1, 2}
Clients == 1..MaxClients
Kinds == {"giiker", "gocube", "gan", "qiyi"}
Callbacks == {1, 2}
Requests == 1..MaxRequests

VARIABLES
    kind,             \* which adapter class the instance is
    is_connected,     \* BaseCubeConnection._is_connected
    client,           \* self._client: 0 is None, else a client id
    read_uuid,        \* GAN: _read_uuid/_write_uuid/_decoder/_version are set
    connection_lock,  \* BaseCubeConnection._connection_lock: holder or 0
    seen_connected,   \* is_connected as of the last _notify_state_change
    link,             \* per client: "unborn", "up" or "down"
    notifying,        \* per client: cube-characteristic notifications on
    n_opened,         \* clients handed out so far
    pc,               \* per task: the await it is suspended at
    call,             \* per task: the call it is in, [op, dev]
    tgt,              \* per task: the client the awaited operation runs on
    hs,               \* per task: index of the awaited handshake step
    result,           \* per task: "none" while in the call, then "ok"/"raised"
    \* history variables (read by the properties only)
    ret_connected,    \* per task: is_connected when its last call returned
    ret_seen,         \* per task: seen_connected when its last call returned
    ret_client,       \* per task: self._client when its last call returned
    old_client,       \* per task: self._client when its call began to run
    did_io,           \* per task: the call has issued a transport operation
    overlap,          \* some call was issued while another was in flight
    hs_done,          \* the handshake of the newest client has completed
    ops_failed,       \* some transport operation has failed
    close_failed,     \* clients whose disconnect() failed with the link up
    n_calls,          \* calls issued
    n_drops,          \* transport-initiated closes
    \* the notification path (Part 2)
    version,          \* GanConnection._version, "none" off GAN
    cube,             \* self._cube: the CubieCube mirror, [ca, ea]
    move_cnt,         \* GanConnection._move_cnt
    data,             \* self._data: state_string, last_move, is_solved
    fired,            \* movement callbacks of the last handler run, in order
    trail,            \* state_string, last_move, mirror as each callback saw them
    raised,           \* the last handler run left with an exception
    applied,          \* the last handler run got past its duplicate check
    last_frame,       \* the notification the last handler run was given
    prev,             \* frame, data, cube, applied, raised before that run
    n_frames,         \* notifications delivered
    notified,         \* _notify_state_change rounds of the last handler run
    spawned,          \* tasks the last handler run created, in order
    called,           \* subscribers the last handler run called, in order
    ideal,            \* what that run leaves when no subscriber raises
    frame_client,     \* self._client during the last handler run, 0 before any
    \* the callback registry (base.py)
    state_callbacks,     \* BaseCubeConnection._state_callbacks
    movement_callbacks,  \* BaseCubeConnection._movement_callbacks
    failing,             \* the callbacks that raise when they are called
    handles,             \* callbacks whose unsubscribe handle exists
    last_op,             \* the last registry call, and the sets before it
    n_sub_ops,           \* registry calls made
    \* the battery round trip of the Giiker adapter
    battery_event,       \* self._battery_event: 0 is None, else an Event
    events_set,          \* the Events that have been set
    req,                 \* per request_battery() call: where it is
    n_reports,           \* system notifications delivered
    \* the module-level helpers and the CubieCube class on their own
    fn_name,             \* the helper that is called, "none" when none is
    fn_arg,              \* the argument of the call
    fn_ret,              \* <<>> before the call, <<value>> after it
    cubie,               \* a CubieCube that apply_move_index is called on
    turns                \* the move indices applied to cubie, in order

inst_vars == <<is_connected, client, read_uuid, connection_lock, seen_connected>>
net_vars == <<link, notifying, n_opened>>
task_vars == <<pc, call, tgt, hs, result>>
hist_vars == <<ret_connected, ret_seen, ret_client, old_client, did_io, overlap,
               hs_done, ops_failed, close_failed, n_calls, n_drops>>
frame_vars == <<version, cube, move_cnt, data, fired, trail, raised, applied,
                last_frame, prev, n_frames, notified, spawned, called, ideal,
                frame_client>>
reg_vars == <<state_callbacks, movement_callbacks, failing, handles, last_op,
              n_sub_ops>>
battery_vars == <<battery_event, events_set, req, n_reports>>
pure_vars == <<fn_name, fn_arg, fn_ret, cubie, turns>>
part2_vars == <<frame_vars, reg_vars, battery_vars, pure_vars>>
vars == <<kind, inst_vars, net_vars, task_vars, hist_vars, part2_vars>>

\* ------------------------------------------------- handshake of connect()
Step(op, caught, guard, sets) ==
    [op |-> op, caught |-> caught, guard |-> guard, sets |-> sets]

\* The awaited transport operations between `self._is_connected = True` and
\* the closing _notify_state_change, per adapter.  caught: the step sits in
\* a try/except that swallows the failure.  guard: "none" dereferences
\* self._client unconditionally, "client" returns early without I/O when the
\* client (GAN: or write uuid/decoder) is unset, "connected" also when
\* client.is_connected is false.  sets: GAN's _init_vN stores
\* decoder/version/read_uuid before issuing the step.
Handshake(a) ==
    CASE a = "giiker" -> << Step("start_notify", FALSE, "none", FALSE),
                            Step("start_notify_sys", TRUE, "none", FALSE),
                            Step("read_gatt_char", TRUE, "none", FALSE) >>
      [] a = "gocube" -> << Step("start_notify", FALSE, "none", FALSE),
                            Step("request_state", TRUE, "connected", FALSE) >>
      [] a = "gan"    -> << Step("get_services", FALSE, "none", FALSE),
                            Step("start_notify", FALSE, "none", TRUE),
                            Step("request_facelets", FALSE, "client", FALSE),
                            Step("request_battery", FALSE, "client", FALSE) >>
      [] a = "qiyi"   -> << Step("start_notify", FALSE, "none", FALSE),
                            Step("send_hello", FALSE, "connected", FALSE) >>

\* ------------------------------------------- synchronous continuations
\* s: the instance fields [ic, cl, ru, seen].  A continuation returns them
\* together with where the task stops: an await (pc, tgt, hs) or the return
\* of the call (pc = "idle", res = "ok"/"raised").
Await(s, p, c, i) == [s |-> s, pc |-> p, tgt |-> c, hs |-> i, res |-> "none"]
Return(s, r) == [s |-> s, pc |-> "idle", tgt |-> 0, hs |-> 0, res |-> r]

\* _notify_state_change: the state subscribers read is_connected.
NotifyStateChange(s) == [s EXCEPT !.seen = s.ic]

\* _handle_disconnect(client)
HandleDisconnect(s) == NotifyStateChange([s EXCEPT !.ic = FALSE])

\* the finally block of _cleanup_connection
CleanupFinally(s) ==
    NotifyStateChange([s EXCEPT !.cl = 0, !.ru = FALSE, !.ic = FALSE])

\* connect(): the device check and the call of establish_connection;
\* disconnect(): the return.
AfterCleanup(s, c) ==
    IF c.op = "disconnect" THEN Return(s, "ok")
    ELSE IF ~c.dev THEN Return(s, "raised")
    ELSE Await(s, "establish", 0, 0)

\* (mutant) a cleanup that forgets the old client without closing it
CleanupConnectionDropsHandle(s, a, c) ==
    AfterCleanup(IF s.cl = 0 THEN s ELSE CleanupFinally(s), c)

\* _cleanup_connection up to its first await
CleanupConnection(s, a, c) ==
    IF s.cl = 0 THEN AfterCleanup(s, c)
    ELSE IF a = "gan" /\ ~s.ru THEN Await(s, "close", s.cl, 0)
    ELSE Await(s, "stop", s.cl, 0)

\* after stop_notify (its failure is swallowed); self._client is read again
AfterStop(s, a, c) ==
    IF s.cl = 0 THEN AfterCleanup(CleanupFinally(s), c)
    ELSE IF a = "giiker" THEN Await(s, "stop2", s.cl, 0)
    ELSE Await(s, "close", s.cl, 0)

\* Giiker: after the second stop_notify (SYSTEM_READ_UUID)
AfterStop2(s, c) ==
    IF s.cl = 0 THEN AfterCleanup(CleanupFinally(s), c)
    ELSE Await(s, "close", s.cl, 0)

\* after client.disconnect() inside _cleanup_connection (failure swallowed)
AfterClose(s, c) == AfterCleanup(CleanupFinally(s), c)

\* connect() from handshake step i on, up to the next await or the return
RECURSIVE HandshakeFrom(_, _, _, _)
HandshakeFrom(s, a, i, lk) ==
    IF i > Len(Handshake(a)) THEN Return(NotifyStateChange(s), "ok")
    ELSE LET st == Handshake(a)[i]
             s1 == IF st.sets THEN [s EXCEPT !.ru = TRUE] ELSE s
             skip == CASE st.guard = "none" -> FALSE
                       [] st.guard = "client" -> s1.cl = 0 \/ ~s1.ru
                       [] st.guard = "connected" ->
                              s1.cl = 0 \/ lk[s1.cl] # "up"
         IN  IF skip THEN HandshakeFrom(s1, a, i + 1, lk)
             ELSE IF s1.cl = 0
                  THEN \* AttributeError on None
                       IF st.caught THEN HandshakeFrom(s1, a, i + 1, lk)
                       ELSE Return(s1, "raised")
                  ELSE Await(s1, "hs", s1.cl, i)

\* (mutant) a connect() that does not wait for the lock
CanAcquireUnguarded(l) == TRUE

\* asyncio.Lock: acquire succeeds at once iff nobody holds it
CanAcquire(l) == l = 0

\* connect() from `async with self._connection_lock` on
ConnectBody(s, a, c) == CleanupConnection(s, a, c)

\* disconnect() up to its first await
DisconnectBody(s, a, c) ==
    IF s.cl # 0 THEN Await(s, "first", s.cl, 0)
    ELSE CleanupConnection(s, a, c)

\* ------------------------------------------------ CubieCube (cube_math.py)
\* Arrays are functions on 0..n-1, as in the source.
Arr(q) == [i \in 0..(Len(q) - 1) |-> q[i + 1]]

c_facelet == Arr(<< Arr(<<8, 9, 20>>), Arr(<<6, 18, 38>>), Arr(<<0, 36, 47>>),
                    Arr(<<2, 45, 11>>), Arr(<<29, 26, 15>>),
                    Arr(<<27, 44, 24>>), Arr(<<33, 53, 42>>),
                    Arr(<<35, 17, 51>>) >>)

e_facelet == Arr(<< Arr(<<5, 10>>), Arr(<<7, 19>>), Arr(<<3, 37>>),
                    Arr(<<1, 46>>), Arr(<<32, 16>>), Arr(<<28, 25>>),
                    Arr(<<30, 43>>), Arr(<<34, 52>>), Arr(<<23, 12>>),
                    Arr(<<21, 41>>), Arr(<<50, 39>>), Arr(<<48, 14>>) >>)

FaceLetters == Arr(<<"U", "R", "F", "D", "L", "B">>)

\* CubieCube.__init__
SolvedCube == [ca |-> [i \in 0..7 |-> i], ea |-> [i \in 0..11 |-> 2 * i]]

\* x ^ b for a bit b
XorBit(x, b) == IF b = 0 THEN x ELSE IF x % 2 = 0 THEN x + 1 ELSE x - 1

\* (mutant) the orientation bit added instead of xor-ed
edge_mult_added(a, b) ==
    [ed \in 0..11 |-> a.ea[b.ea[ed] \div 2] + (b.ea[ed] % 2)]

edge_mult(a, b) ==
    [ed \in 0..11 |-> XorBit(a.ea[b.ea[ed] \div 2], b.ea[ed] % 2)]

\* (mutant) every product twists the corner once more
corn_mult_twisted(a, b) ==
    [corn \in 0..7 |->
        LET ori == ((a.ca[b.ca[corn] % 8] \div 8) + (b.ca[corn] \div 8) + 1) % 3
        IN  (a.ca[b.ca[corn] % 8] % 8) + 8 * ori]

corn_mult(a, b) ==
    [corn \in 0..7 |->
        LET ori == ((a.ca[b.ca[corn] % 8] \div 8) + (b.ca[corn] \div 8)) % 3
        IN  (a.ca[b.ca[corn] % 8] % 8) + 8 * ori]

cube_mult(a, b) == [ca |-> corn_mult(a, b), ea |-> edge_mult(a, b)]

\* the six quarter turns _init_move_cube writes at indices 0, 3, .. 15
BaseMoves == Arr(<<
    [ca |-> Arr(<<3, 0, 1, 2, 4, 5, 6, 7>>),
     ea |-> Arr(<<6, 0, 2, 4, 8, 10, 12, 14, 16, 18, 20, 22>>)],
    [ca |-> Arr(<<20, 1, 2, 8, 15, 5, 6, 19>>),
     ea |-> Arr(<<16, 2, 4, 6, 22, 10, 12, 14, 8, 18, 20, 0>>)],
    [ca |-> Arr(<<9, 21, 2, 3, 16, 12, 6, 7>>),
     ea |-> Arr(<<0, 19, 4, 6, 8, 17, 12, 14, 3, 11, 20, 22>>)],
    [ca |-> Arr(<<0, 1, 2, 3, 5, 6, 7, 4>>),
     ea |-> Arr(<<0, 2, 4, 6, 10, 12, 14, 8, 16, 18, 20, 22>>)],
    [ca |-> Arr(<<0, 10, 22, 3, 4, 17, 13, 7>>),
     ea |-> Arr(<<0, 2, 20, 6, 8, 10, 18, 14, 16, 4, 12, 22>>)],
    [ca |-> Arr(<<0, 1, 11, 23, 4, 5, 18, 14>>),
     ea |-> Arr(<<0, 2, 4, 23, 8, 10, 12, 21, 16, 18, 7, 15>>)] >>)

\* CubieCube.move_cube as _init_move_cube fills it:
\* move_cube[axis + power + 1] = move_cube[axis + power] * move_cube[axis]
move_cube[i \in 0..17] ==
    IF i % 3 = 0 THEN BaseMoves[i \div 3]
    ELSE cube_mult(move_cube[i - 1], move_cube[i - (i % 3)])

apply_move_index(cc, move_index) == cube_mult(cc, move_cube[move_index])

\* which corner (edge) slot and which of its stickers sits at facelet p
CornerSlotAt == [p \in 0..53 |->
    IF \E c \in 0..7, k \in 0..2 : c_facelet[c][k] = p
    THEN CHOOSE ck \in (0..7) \X (0..2) : c_facelet[ck[1]][ck[2]] = p
    ELSE <<8, 0>>]

EdgeSlotAt == [p \in 0..53 |->
    IF \E e \in 0..11, k \in 0..1 : e_facelet[e][k] = p
    THEN CHOOSE ek \in (0..11) \X (0..1) : e_facelet[ek[1]][ek[2]] = p
    ELSE <<12, 0>>]

\* to_perm: f[c_facelet[c][(n + ori) % 3]] = c_facelet[corner][n], likewise
\* for the edges; the centres keep f[i] = i.
to_perm(cc) ==
    [p \in 0..53 |->
        LET cs == CornerSlotAt[p]
            es == EdgeSlotAt[p]
        IN  IF cs[1] < 8
            THEN LET corner == cc.ca[cs[1]] % 8
                     ori == cc.ca[cs[1]] \div 8
                 IN  c_facelet[corner][(cs[2] + 3 - (ori % 3)) % 3]
            ELSE IF es[1] < 12
            THEN LET edge == cc.ea[es[1]] \div 2
                     ori == cc.ea[es[1]] % 2
                 IN  e_facelet[edge][(es[2] + 2 - ori) % 2]
            ELSE p]

\* to_facelet: the 54 letters "URFDLB"[perm[i] // 9], as a sequence
to_facelet(cc) ==
    LET perm == to_perm(cc)
    IN  [i \in 1..54 |-> FaceLetters[perm[i - 1] \div 9]]

ct_facelet == Arr(<<4, 13, 22, 31, 40, 49>>)

\* centers.find(ch) for the six centre letters of facelet
CenterFind(facelet, ch) ==
    IF \E k \in 0..5 : facelet[ct_facelet[k] + 1] = ch
    THEN CHOOSE k \in 0..5 :
             /\ facelet[ct_facelet[k] + 1] = ch
             /\ \A j \in 0..(k - 1) : facelet[ct_facelet[j] + 1] # ch
    ELSE -1

\* from_facelet, corner slot i: the first orientation that shows centre 0 or
\* 3 (3 when none does), then the first corner j with the two other colours;
\* the slot keeps its value when no corner has them
FromFaceletCorner(old, f, i) ==
    LET ori == IF f[c_facelet[i][0]] \in {0, 3} THEN 0
               ELSE IF f[c_facelet[i][1]] \in {0, 3} THEN 1
               ELSE IF f[c_facelet[i][2]] \in {0, 3} THEN 2
               ELSE 3
        col1 == f[c_facelet[i][(ori + 1) % 3]]
        col2 == f[c_facelet[i][(ori + 2) % 3]]
        Fits(j) == /\ col1 = c_facelet[j][1] \div 9
                   /\ col2 = c_facelet[j][2] \div 9
    IN  IF \E j \in 0..7 : Fits(j)
        THEN (CHOOSE j \in 0..7 : Fits(j) /\ \A k \in 0..(j - 1) : ~Fits(k))
             + 8 * (ori % 3)
        ELSE old

\* (mutant) the edge is never read as flipped
FromFaceletEdgeStraight(old, f, i) ==
    LET a == f[e_facelet[i][0]]
        b == f[e_facelet[i][1]]
        Fits(j) == \/ a = e_facelet[j][0] \div 9 /\ b = e_facelet[j][1] \div 9
                   \/ a = e_facelet[j][1] \div 9 /\ b = e_facelet[j][0] \div 9
    IN  IF \E j \in 0..11 : Fits(j)
        THEN 2 * (CHOOSE j \in 0..11 : Fits(j) /\ \A k \in 0..(j - 1) : ~Fits(k))
        ELSE old

\* from_facelet, edge slot i: the first edge j with the two colours, either
\* way round
FromFaceletEdge(old, f, i) ==
    LET a == f[e_facelet[i][0]]
        b == f[e_facelet[i][1]]
        Straight(j) == a = e_facelet[j][0] \div 9 /\ b = e_facelet[j][1] \div 9
        Flipped(j) == a = e_facelet[j][1] \div 9 /\ b = e_facelet[j][0] \div 9
        Fits(j) == Straight(j) \/ Flipped(j)
    IN  IF \E j \in 0..11 : Fits(j)
        THEN LET j == CHOOSE j \in 0..11 :
                          Fits(j) /\ \A k \in 0..(j - 1) : ~Fits(k)
             IN  IF Straight(j) THEN 2 * j ELSE 2 * j + 1
        ELSE old

\* from_facelet: the mirror after self.from_facelet(facelet); the return
\* value (-1 for a rejected string) is not read by any caller.  count is
\* the sum of 1 << (idx << 2) over the 54 letters, 0x999999 when every
\* centre letter occurs nine times.
from_facelet(cc, facelet) ==
    LET f == [i \in 0..53 |-> CenterFind(facelet, facelet[i + 1])]
        Times(k) == Cardinality({i \in 0..53 : f[i] = k})
        count == Times(0) + 16 * Times(1) + 256 * Times(2) + 4096 * Times(3)
                 + 65536 * Times(4) + 1048576 * Times(5)
    IN  IF \E i \in 0..53 : f[i] = -1 THEN cc
        ELSE IF count # 10066329 THEN cc
        ELSE [ca |-> [i \in 0..7 |-> FromFaceletCorner(cc.ca[i], f, i)],
              ea |-> [i \in 0..11 |-> FromFaceletEdge(cc.ea[i], f, i)]]

\* The call cc.from_facelet(facelet): ret is what it returns, "self", or
\* "invalid" for -1, or "raised" when it leaves with an IndexError; cube is
\* what cc holds afterwards.  The centre letters are read first (indices up
\* to 49), then the letters one by one, an unknown letter returning -1 at
\* once; the count is compared after the 54th letter.
from_facelet_call(cc, facelet) ==
    IF Len(facelet) < 50 THEN [ret |-> "raised", cube |-> cc]
    ELSE IF \E i \in 1..54 : /\ i <= Len(facelet)
                             /\ CenterFind(facelet, facelet[i]) = -1
    THEN [ret |-> "invalid", cube |-> cc]
    ELSE IF Len(facelet) < 54 THEN [ret |-> "raised", cube |-> cc]
    ELSE IF LET Times(k) == Cardinality({i \in 1..54 :
                                CenterFind(facelet, facelet[i]) = k})
            IN  Times(0) + 16 * Times(1) + 256 * Times(2) + 4096 * Times(3)
                + 65536 * Times(4) + 1048576 * Times(5) # 10066329
    THEN [ret |-> "invalid", cube |-> cc]
    ELSE [ret |-> "self", cube |-> from_facelet(cc, facelet)]

\* --------------------------------------------------------------- state
Inst == [ic |-> is_connected, cl |-> client, ru |-> read_uuid,
         seen |-> seen_connected]

\* CubeData() and the adapter fields as __init__ leaves them; <<>> and "none"
\* stand for None.
NoData == [state_string |-> <<>>, last_move |-> "none", is_solved |-> FALSE,
           face_states |-> <<>>, battery_level |-> -1]
NoFrame == [cnt |-> -1, moves |-> <<>>, pow |-> 0, axis |-> 0]

\* A request_battery() call that has not been issued.  born is the Event
\* the call created, waits the Event its wait_for waits on, result what it
\* returned (-1 is None); overtaken: a later call was issued while this one
\* was in flight and no notification had arrived since it was issued.
IdleRequest == [pc |-> "idle", born |-> 0, waits |-> 0, result |-> -1,
                overtaken |-> FALSE]

\* GiikerConnection.__init__: self._battery_event = None
NoRequests ==
    /\ battery_event = 0
    /\ events_set = {}
    /\ req = [r \in Requests |-> IdleRequest]
    /\ n_reports = 0

\* no helper is called on its own
NoCall ==
    /\ fn_name = "none"
    /\ fn_arg = <<>>
    /\ fn_ret = <<>>
    /\ cubie = SolvedCube
    /\ turns = <<>>

\* the notification path before the first notification
FreshFrames(d, c) ==
    /\ NoRequests
    /\ cube = c
    /\ move_cnt = -1
    /\ data = d
    /\ fired = <<>>
    /\ trail = <<>>
    /\ raised = FALSE
    /\ applied = FALSE
    /\ last_frame = NoFrame
    /\ prev = [frame |-> NoFrame, data |-> NoData, cube |-> SolvedCube,
               applied |-> FALSE, raised |-> FALSE]
    /\ n_frames = 0
    /\ notified = 0
    /\ spawned = <<>>
    /\ called = <<>>
    /\ ideal = [data |-> d, cube |-> c, move_cnt |-> -1, called |-> <<>>]
    /\ frame_client = 0

Fresh(d, c) == FreshFrames(d, c) /\ NoCall

\* BaseCubeConnection.__init__: the two callback sets are empty
NoOp == [op |-> "none", cb |-> 0, state |-> {}, movement |-> {}]

NoSubscribers ==
    /\ state_callbacks = {}
    /\ movement_callbacks = {}
    /\ failing = {}
    /\ handles = {}
    /\ last_op = NoOp
    /\ n_sub_ops = 0

Constructed == Fresh(NoData, SolvedCube) /\ NoSubscribers

\* the adapter fields as __init__ leaves them, and no call issued
Unconnected ==
    /\ is_connected = FALSE
    /\ client = 0
    /\ read_uuid = FALSE
    /\ connection_lock = 0
    /\ seen_connected = FALSE
    /\ link = [c \in Clients |-> "unborn"]
    /\ notifying = [c \in Clients |-> FALSE]
    /\ n_opened = 0
    /\ pc = [t \in Tasks |-> "idle"]
    /\ call = [t \in Tasks |-> [op |-> "none", dev |-> FALSE]]
    /\ tgt = [t \in Tasks |-> 0]
    /\ hs = [t \in Tasks |-> 0]
    /\ result = [t \in Tasks |-> "none"]
    /\ ret_connected = [t \in Tasks |-> FALSE]
    /\ ret_seen = [t \in Tasks |-> FALSE]
    /\ ret_client = [t \in Tasks |-> 0]
    /\ old_client = [t \in Tasks |-> 0]
    /\ did_io = [t \in Tasks |-> FALSE]
    /\ overlap = FALSE
    /\ hs_done = FALSE
    /\ ops_failed = FALSE
    /\ close_failed = {}
    /\ n_calls = 0
    /\ n_drops = 0
    /\ version = "none"

Init ==
    /\ kind \in Kinds
    /\ Unconnected
    /\ Constructed

\* The task t stops at k (a continuation's value).  holds: t holds the lock
\* (it is in connect()); returning from connect() leaves the `async with`
\* block and releases the lock.  fresh: the step is the call being issued.
\* est: the step has stored a new client in self._client.
Commit(t, k, holds, fresh, est) ==
    /\ is_connected' = k.s.ic
    /\ client' = k.s.cl
    /\ read_uuid' = k.s.ru
    /\ seen_connected' = k.s.seen
    /\ pc' = [pc EXCEPT ![t] = k.pc]
    /\ tgt' = [tgt EXCEPT ![t] = k.tgt]
    /\ hs' = [hs EXCEPT ![t] = k.hs]
    /\ result' = [result EXCEPT ![t] = k.res]
    /\ connection_lock' = IF ~holds THEN connection_lock
                          ELSE IF k.pc = "idle" THEN 0 ELSE t
    /\ ret_connected' = IF k.pc = "idle"
                        THEN [ret_connected EXCEPT ![t] = k.s.ic]
                        ELSE ret_connected
    /\ ret_seen' = IF k.pc = "idle" THEN [ret_seen EXCEPT ![t] = k.s.seen]
                   ELSE ret_seen
    /\ ret_client' = IF k.pc = "idle" THEN [ret_client EXCEPT ![t] = k.s.cl]
                     ELSE ret_client
    /\ did_io' = [did_io EXCEPT ![t] = (~fresh /\ @) \/ k.pc # "idle"]
    /\ hs_done' = IF holds /\ k.pc = "idle" /\ k.res = "ok" THEN TRUE
                  ELSE IF est THEN FALSE ELSE hs_done

InConnect(t) == call[t].op = "connect"

\* ------------------------------------------------------------- actions
\* A host task calls connect(address, device); dev says whether device is
\* present and device.address.lower() == address.lower().
CallConnect(t, dev) ==
    /\ pc[t] = "idle"
    /\ n_calls < MaxCalls
    /\ n_calls' = n_calls + 1
    /\ call' = [call EXCEPT ![t] = [op |-> "connect", dev |-> dev]]
    /\ old_client' = [old_client EXCEPT ![t] = client]
    /\ overlap' = (overlap \/ \E u \in Tasks \ {t} : pc[u] # "idle")
    /\ IF CanAcquire(connection_lock)
       THEN Commit(t, ConnectBody(Inst, kind, call'[t]), TRUE, TRUE, FALSE)
       ELSE /\ pc' = [pc EXCEPT ![t] = "lock"]
            /\ result' = [result EXCEPT ![t] = "none"]
            /\ did_io' = [did_io EXCEPT ![t] = FALSE]
            /\ UNCHANGED <<inst_vars, tgt, hs, ret_connected, ret_seen,
                           ret_client, hs_done>>
    /\ UNCHANGED part2_vars
    /\ UNCHANGED <<kind, net_vars, ops_failed, close_failed, n_drops>>

\* A connect() that waited for the lock gets it.
AcquireLock(t) ==
    /\ pc[t] = "lock"
    /\ CanAcquire(connection_lock)
    /\ Commit(t, ConnectBody(Inst, kind, call[t]), TRUE, FALSE, FALSE)
    /\ old_client' = [old_client EXCEPT ![t] = client]
    /\ UNCHANGED part2_vars
    /\ UNCHANGED <<kind, net_vars, call, overlap, ops_failed,
                   close_failed, n_calls, n_drops>>

\* A host task calls disconnect().
CallDisconnect(t) ==
    /\ pc[t] = "idle"
    /\ n_calls < MaxCalls
    /\ n_calls' = n_calls + 1
    /\ call' = [call EXCEPT ![t] = [op |-> "disconnect", dev |-> FALSE]]
    /\ old_client' = [old_client EXCEPT ![t] = client]
    /\ overlap' = (overlap \/ \E u \in Tasks \ {t} : pc[u] # "idle")
    /\ Commit(t, DisconnectBody(Inst, kind, call'[t]), FALSE, TRUE, FALSE)
    /\ UNCHANGED part2_vars
    /\ UNCHANGED <<kind, net_vars, ops_failed, close_failed, n_drops>>

\* A transport operation on client c can succeed only while its link is up.
CanSucceed(c) == link[c] = "up"

\* stop_notify(CHARACTERISTIC) completes on tgt[t]; ok or an exception.
StopNotifyDone(t, ok) ==
    /\ pc[t] = "stop"
    /\ ok => CanSucceed(tgt[t])
    /\ notifying' = IF ok THEN [notifying EXCEPT ![tgt[t]] = FALSE]
                    ELSE notifying
    /\ ops_failed' = (ops_failed \/ ~ok)
    /\ Commit(t, AfterStop(Inst, kind, call[t]), InConnect(t), FALSE, FALSE)
    /\ UNCHANGED part2_vars
    /\ UNCHANGED <<kind, link, n_opened, call, old_client, overlap, close_failed,
                   n_calls, n_drops>>

\* Giiker: stop_notify(SYSTEM_READ_UUID) completes.
StopNotifySysDone(t, ok) ==
    /\ pc[t] = "stop2"
    /\ ok => CanSucceed(tgt[t])
    /\ ops_failed' = (ops_failed \/ ~ok)
    /\ Commit(t, AfterStop2(Inst, call[t]), InConnect(t), FALSE, FALSE)
    /\ UNCHANGED part2_vars
    /\ UNCHANGED <<kind, net_vars, call, old_client, overlap, close_failed,
                   n_calls, n_drops>>

\* The effect of client.disconnect() on client c: when it succeeds on a live
\* link the link goes down and the transport runs the client's
\* disconnected_callback, which is self._handle_disconnect.
Closed(s, c, ok) == IF ok /\ link[c] = "up" THEN HandleDisconnect(s) ELSE s

CloseEffect(c, ok) ==
    /\ link' = IF ok THEN [link EXCEPT ![c] = "down"] ELSE link
    /\ notifying' = IF ok THEN [notifying EXCEPT ![c] = FALSE] ELSE notifying
    /\ ops_failed' = (ops_failed \/ ~ok)
    /\ close_failed' = IF ~ok /\ link[c] = "up" THEN close_failed \cup {c}
                       ELSE close_failed

\* client.disconnect() inside _cleanup_connection completes.
CleanupCloseDone(t, ok) ==
    /\ pc[t] = "close"
    /\ CloseEffect(tgt[t], ok)
    /\ Commit(t, AfterClose(Closed(Inst, tgt[t], ok), call[t]),
              InConnect(t), FALSE, FALSE)
    /\ UNCHANGED part2_vars
    /\ UNCHANGED <<kind, n_opened, call, old_client, overlap, n_calls, n_drops>>

\* The client.disconnect() that opens disconnect() completes; it is not in
\* a try block, so its failure leaves disconnect().
FirstCloseDone(t, ok) ==
    /\ pc[t] = "first"
    /\ CloseEffect(tgt[t], ok)
    /\ Commit(t, IF ok THEN CleanupConnection(Closed(Inst, tgt[t], ok),
                                              kind, call[t])
                 ELSE Return(Inst, "raised"),
              FALSE, FALSE, FALSE)
    /\ UNCHANGED part2_vars
    /\ UNCHANGED <<kind, n_opened, call, old_client, overlap, n_calls, n_drops>>

\* establish_connection completes: a new client with its link up, or an
\* exception that connect() re-raises.
EstablishDone(t, ok) ==
    /\ pc[t] = "establish"
    /\ ok => n_opened < MaxClients
    /\ LET c == n_opened + 1
           lk == [link EXCEPT ![c] = "up"]
       IN  IF ok
           THEN /\ link' = lk
                /\ n_opened' = c
                /\ Commit(t, HandshakeFrom([Inst EXCEPT !.cl = c, !.ic = TRUE],
                                           kind, 1, lk), TRUE, FALSE, TRUE)
           ELSE /\ UNCHANGED <<link, n_opened>>
                /\ Commit(t, Return(Inst, "raised"), TRUE, FALSE, FALSE)
    /\ ops_failed' = (ops_failed \/ ~ok)
    /\ UNCHANGED part2_vars
    /\ UNCHANGED <<kind, notifying, call, old_client, overlap, close_failed,
                   n_calls, n_drops>>

\* The awaited handshake step completes.  supported: GAN only, whether the
\* services read contain one of the known data services.
HandshakeStepDone(t, ok, supported) ==
    /\ pc[t] = "hs"
    /\ ok => CanSucceed(tgt[t])
    /\ LET st == Handshake(kind)[hs[t]]
       IN  /\ supported \/ (ok /\ st.op = "get_services")
           /\ notifying' = IF ok /\ st.op = "start_notify"
                           THEN [notifying EXCEPT ![tgt[t]] = TRUE]
                           ELSE notifying
           /\ Commit(t, IF (~ok /\ ~st.caught) \/ ~supported
                        THEN Return(Inst, "raised")
                        ELSE HandshakeFrom(Inst, kind, hs[t] + 1, link),
                     TRUE, FALSE, FALSE)
    /\ ops_failed' = (ops_failed \/ ~ok)
    /\ UNCHANGED part2_vars
    /\ UNCHANGED <<kind, link, n_opened, call, old_client, overlap, close_failed,
                   n_calls, n_drops>>

\* The transport loses the link of client c and runs its
\* disconnected_callback.
TransportClose(c) ==
    /\ link[c] = "up"
    /\ n_drops < MaxDrops
    /\ n_drops' = n_drops + 1
    /\ link' = [link EXCEPT ![c] = "down"]
    /\ notifying' = [notifying EXCEPT ![c] = FALSE]
    /\ is_connected' = HandleDisconnect(Inst).ic
    /\ seen_connected' = HandleDisconnect(Inst).seen
    /\ UNCHANGED part2_vars
    /\ UNCHANGED <<kind, client, read_uuid, connection_lock, n_opened,
                   task_vars, ret_connected, ret_seen, ret_client, old_client,
                   did_io, overlap, hs_done, ops_failed, close_failed,
                   n_calls>>

Next ==
    \/ \E t \in Tasks, dev \in BOOLEAN : CallConnect(t, dev)
    \/ \E t \in Tasks : AcquireLock(t)
    \/ \E t \in Tasks : CallDisconnect(t)
    \/ \E t \in Tasks, ok \in BOOLEAN : StopNotifyDone(t, ok)
    \/ \E t \in Tasks, ok \in BOOLEAN : StopNotifySysDone(t, ok)
    \/ \E t \in Tasks, ok \in BOOLEAN : CleanupCloseDone(t, ok)
    \/ \E t \in Tasks, ok \in BOOLEAN : FirstCloseDone(t, ok)
    \/ \E t \in Tasks, ok \in BOOLEAN : EstablishDone(t, ok)
    \/ \E t \in Tasks, ok \in BOOLEAN, supported \in BOOLEAN :
           HandshakeStepDone(t, ok, supported)
    \/ \E c \in Clients : TransportClose(c)

Spec == Init /\ [][Next]_vars

TypeOK ==
    /\ is_connected \in BOOLEAN
    /\ client \in 0..MaxClients
    /\ connection_lock \in Tasks \cup {0}
    /\ \A t \in Tasks : pc[t] \in {"idle", "lock", "stop", "stop2", "close",
                                    "first", "establish", "hs"}

\* available: BaseCubeConnection.available, overridden by GiikerConnection
Available ==
    IF kind = "giiker"
    THEN is_connected /\ client # 0 /\ link[client] = "up"
    ELSE is_connected

(***************************************************************************)
(* Part 1b (SpecHost): the host integration (__init__.py) drives one       *)
(* adapter.  Its connect attempts (startup, advertisement, retry,          *)
(* reconnect after a drop) all go through _async_try_connect; the switch   *)
(* calls _set_auto_connect(False), which clears the flag and awaits        *)
(* connection.disconnect().  The flag is not set again in a behaviour, so  *)
(* it is false from the step in which disconnect() is called, and          *)
(* connect_state["in_progress"] is true while a connect() is in flight.    *)
(***************************************************************************)
\* entry_data["auto_connect_enabled"]
auto_connect_enabled == \A t \in Tasks : call[t].op # "disconnect"

\* connect_state["in_progress"]
in_progress == \E t \in Tasks : call[t].op = "connect" /\ pc[t] # "idle"

\* _async_try_connect up to its first await inside connection.connect();
\* dev: the device of the advertisement, or the one _get_ble_device finds
async_try_connect(t, dev) ==
    /\ auto_connect_enabled
    /\ ~in_progress
    /\ ~Available
    /\ CallConnect(t, dev)

\* _set_auto_connect(False) up to the first await inside
\* connection.disconnect()
set_auto_connect_off(t) ==
    /\ auto_connect_enabled
    /\ CallDisconnect(t)

NextHost ==
    \/ \E t \in Tasks, dev \in BOOLEAN : async_try_connect(t, dev)
    \/ \E t \in Tasks : set_auto_connect_off(t)
    \/ \E t \in Tasks, ok \in BOOLEAN : StopNotifyDone(t, ok)
    \/ \E t \in Tasks, ok \in BOOLEAN : StopNotifySysDone(t, ok)
    \/ \E t \in Tasks, ok \in BOOLEAN : CleanupCloseDone(t, ok)
    \/ \E t \in Tasks, ok \in BOOLEAN : FirstCloseDone(t, ok)
    \/ \E t \in Tasks, ok \in BOOLEAN : EstablishDone(t, ok)
    \/ \E t \in Tasks, ok \in BOOLEAN, supported \in BOOLEAN :
           HandshakeStepDone(t, ok, supported)
    \/ \E c \in Clients : TransportClose(c)

SpecHost == Init /\ [][NextHost]_vars

(***************************************************************************)
(* Part 2 (SpecFrames): the notification path of the GoCube and GAN        *)
(* adapters.  A notification handler is synchronous, so one action is one  *)
(* whole handler run.  A frame is given by the fields the handler reads    *)
(* from it: its move counter (GAN), its move codes in frame order (GoCube, *)
(* GAN v1, GAN v2) or its power and axis bits (GAN v3; v4 reads the same   *)
(* fields at other offsets).                                               *)
(***************************************************************************)
AXIS_PERM == Arr(<<5, 2, 0, 3, 1, 4>>)
GanAxisBits == <<2, 32, 8, 1, 16, 4>>

\* Sample notifications.  GoCube: the move bytes of a rotation message (4 is
\* U, 3 is F', 12 has no axis).  GAN v1: the six move bytes (18 has no face).
\* GAN v2: the seven 5-bit slots (0 is U, 5 is F', 2 is R, 31 is an empty
\* slot).  GAN v3: the axis bits (2 is U, 8 is F, 0 is not an axis).
GoCubeMoveBytes == {<<>>, <<4>>, <<3>>, <<4, 3>>, <<3, 4>>, <<4, 12>>,
                    <<3, 4, 4>>}
\* GoCube state messages, as the 54 bytes from data[3] on: the solved cube,
\* the cube after R, the solved cube with the centre byte of U saying R, a
\* byte 6 (no letter), 53 bytes, and two pairs of stickers exchanged.
GoCubeStateBodies == {
    <<0, 0, 0, 0, 0, 0, 0, 0, 0, 1, 1, 1, 1, 1, 1, 1, 1, 1, 2, 2, 2, 2, 2, 2,
    2, 2, 2, 3, 3, 3, 3, 3, 3, 3, 3, 3, 4, 4, 4, 4, 4, 4, 4, 4, 4, 5, 5, 5, 5,
    5, 5, 5, 5, 5>>,
    <<0, 2, 0, 0, 0, 0, 0, 2, 2, 1, 1, 1, 3, 3, 3, 1, 1, 1, 2, 2, 2, 2, 2, 1,
    1, 1, 2, 3, 0, 0, 0, 3, 3, 3, 3, 3, 4, 4, 4, 4, 4, 4, 4, 4, 4, 5, 5, 5, 5,
    5, 5, 5, 5, 5>>,
    <<0, 0, 0, 0, 0, 0, 0, 0, 0, 1, 1, 1, 1, 1, 1, 1, 1, 1, 4, 2, 2, 2, 2, 2,
    2, 2, 2, 3, 3, 3, 3, 3, 3, 3, 3, 3, 4, 4, 4, 4, 4, 4, 4, 4, 4, 5, 5, 5, 5,
    5, 5, 5, 5, 5>>,
    <<6, 0, 0, 0, 0, 0, 0, 0, 0, 1, 1, 1, 1, 1, 1, 1, 1, 1, 2, 2, 2, 2, 2, 2,
    2, 2, 2, 3, 3, 3, 3, 3, 3, 3, 3, 3, 4, 4, 4, 4, 4, 4, 4, 4, 4, 5, 5, 5, 5,
    5, 5, 5, 5, 5>>,
    <<0, 0, 0, 0, 0, 0, 0, 0, 0, 1, 1, 1, 1, 1, 1, 1, 1, 1, 2, 2, 2, 2, 2, 2,
    2, 2, 2, 3, 3, 3, 3, 3, 3, 3, 3, 3, 4, 4, 4, 4, 4, 4, 4, 4, 4, 5, 5, 5, 5,
    5, 5, 5, 5>>,
    <<0, 0, 0, 0, 0, 0, 0, 0, 0, 1, 1, 1, 1, 1, 2, 1, 1, 1, 2, 2, 2, 2, 2, 2,
    1, 4, 2, 3, 3, 3, 3, 3, 3, 3, 3, 3, 4, 2, 4, 4, 4, 4, 4, 4, 4, 5, 5, 5, 5,
    5, 5, 5, 5, 5>>}

GanV1Moves == {<<0, 7, 1, 8, 3, 17>>, <<2, 2, 2, 2, 2, 2>>,
               <<0, 8, 18, 0, 0, 0>>}
GanV2Slots == {<<31, 31, 31, 31, 31, 31, 31>>, <<0, 31, 31, 31, 31, 31, 31>>,
               <<0, 5, 31, 31, 31, 31, 31>>, <<5, 0, 31, 31, 31, 31, 31>>,
               <<31, 5, 0, 31, 31, 31, 31>>, <<2, 5, 0, 31, 31, 31, 31>>}
GanV3Axis == {2, 8, 0}
Counters == {0, 1}

\* Giiker notifications: a solved cube, a turned one, corner slot 0 with
\* position 0, corner position 9 with edge positions 13 and 0 and move face
\* 0, frames of 10 and 15 bytes, an encrypted frame (byte 18 is 0xA7), an
\* empty one.
GiikerRaw == {
    <<18, 52, 86, 120, 51, 51, 51, 51, 18, 52, 86, 120, 154, 188, 0, 0, 17, 49, 19, 51>>,
    <<35, 65, 86, 120, 18, 51, 33, 51, 35, 65, 86, 120, 154, 188, 165, 48, 67, 17, 19, 51>>,
    <<2, 52, 86, 120, 51, 51, 51, 51, 18, 52, 86, 120, 154, 188, 0, 0, 18, 49, 19, 51>>,
    <<18, 57, 86, 120, 51, 51, 51, 51, 18, 52, 93, 120, 154, 176, 0, 0, 1, 49, 19, 51>>,
    <<18, 52, 86, 120, 51, 51, 51, 51, 18, 52>>,
    <<18, 52, 86, 120, 51, 51, 51, 51, 18, 52, 86, 120, 154, 188, 128>>,
    <<98, 227, 238, 152, 131, 42, 70, 188, 236, 13, 149, 215, 28, 235, 106, 175, 96, 43, 167, 92>>,
    <<>>}

\* a decoded turn: the face index in "URFDLB" and the suffix
Turn(face, suffix) == [face |-> face, suffix |-> suffix]
Notation(m) == FaceLetters[m.face] \o m.suffix

\* COLOR_FACE_MAPPING, with the keys capitalized as face_states has them
COLOR_FACE_MAPPING ==
    [c \in {"Blue", "Yellow", "Orange", "White", "Red", "Green"} |->
        CASE c = "Blue" -> "B" [] c = "Yellow" -> "D" [] c = "Orange" -> "L"
          [] c = "White" -> "U" [] c = "Red" -> "R" [] c = "Green" -> "F"]

\* FACE_TILE_INDICES[letter], as indices of a 1-based sequence
FACE_TILE_INDICES(letter) ==
    LET k == CHOOSE i \in 0..5 : FaceLetters[i] = letter
    IN  (9 * k + 1)..(9 * k + 9)

\* (mutant) every face is reported as the whole cube is
build_face_states_whole(state_string) ==
    IF Len(state_string) < 54 THEN <<>>
    ELSE [c \in DOMAIN COLOR_FACE_MAPPING |->
             \A i \in 1..54 : state_string[i] = FaceLetters[(i - 1) \div 9]]

\* build_face_states(...)[0]: {} for a missing or short string
build_face_states(state_string) ==
    IF Len(state_string) < 54 THEN <<>>
    ELSE [c \in DOMAIN COLOR_FACE_MAPPING |->
             \A i \in FACE_TILE_INDICES(COLOR_FACE_MAPPING[c]) :
                 state_string[i] = COLOR_FACE_MAPPING[c]]

\* build_face_states(...)[1]: every face shows its own letter
is_solved(state_string) ==
    /\ Len(state_string) >= 54
    /\ \A i \in 1..54 : state_string[i] = FaceLetters[(i - 1) \div 9]

\* (mutant) update_cube_state that stores the string only
update_cube_state_stale(d, state_string) ==
    [d EXCEPT !.state_string = state_string]

update_cube_state(d, state_string) ==
    [d EXCEPT !.state_string = state_string,
              !.face_states = build_face_states(state_string),
              !.is_solved = is_solved(state_string)]

\* GAN v1, the decoded value of the state characteristic that connect()
\* reads: the solved cube in 18 bytes, the first 16 bytes of it, and the 18
\* bytes with a first tile of 6.
GanV1StateReads == {
    <<0, 0, 36, 0, 73, 146, 36, 73, 109, 146, 219, 182, 73, 146, 182, 36,
      109, 219>>,
    <<0, 0, 36, 0, 73, 146, 36, 73, 109, 146, 219, 182, 73, 146, 182, 36>>,
    <<0, 192, 36, 0, 73, 146, 36, 73, 109, 146, 219, 182, 73, 146, 182, 36,
      109, 219>>}

\* i ^ 1
XorOne(i) == IF i % 2 = 0 THEN i + 1 ELSE i - 1

\* _request_v1_state: the 24 bits of the face that starts at decoded[i]
V1Face(decoded, i) ==
    decoded[XorOne(i) + 1] * 65536 + decoded[XorOne(i + 1) + 1] * 256
    + decoded[XorOne(i + 2) + 1]

\* _request_v1_state: tile t (0..8) of that face; tile 4 is the centre
\* "URFDLB"[i // 3], the others are the 3-bit fields from bit 21 down
V1Tile(decoded, i, t) ==
    IF t = 4 THEN i \div 3
    ELSE (V1Face(decoded, i) \div 2 ^ (21 - 3 * (IF t > 4 THEN t - 1 ELSE t)))
         % 8

\* GanConnection._request_v1_state after the read: update_cube_state when
\* every tile is a letter, then from_facelet, which raises on a string
\* that has no index 49
request_v1_state(d, c, decoded) ==
    LET n == IF Len(decoded) - 2 <= 0 THEN 0 ELSE (Len(decoded) - 2 + 2) \div 3
        state == [p \in 1..(9 * n) |->
                     V1Tile(decoded, 3 * ((p - 1) \div 9), (p - 1) % 9)]
    IN  IF \E p \in 1..(9 * n) : state[p] > 5
        THEN [data |-> d, cube |-> c, raised |-> TRUE]
        ELSE LET str == [p \in 1..(9 * n) |-> FaceLetters[state[p]]]
             IN  [data |-> update_cube_state(d, str),
                  cube |-> IF 9 * n >= 50 THEN from_facelet(c, str) ELSE c,
                  raised |-> 9 * n < 50]

\* The handler state: what a run reads and writes of the adapter, and what
\* it has done so far.
\* state_order and move_order are the orders in which this run's loops over
\* the two callback sets meet the callbacks; bad are the callbacks that
\* raise.  Every step of a run leaves h alone once h.raised is set: the
\* exception is on its way out.
Handler(state_order, move_order, bad) ==
    [cube |-> cube, move_cnt |-> move_cnt, data |-> data,
     fired |-> <<>>, trail |-> <<>>, raised |-> FALSE,
     applied |-> FALSE, notified |-> 0, spawned |-> <<>>, called |-> <<>>,
     state_order |-> state_order, move_order |-> move_order, failing |-> bad]

Raise(h) == [h EXCEPT !.raised = TRUE]

\* except Exception: ... around a step that left as h
Caught(h) == [h EXCEPT !.raised = FALSE]

\* for callback in callbacks: callback(...): the callbacks are called in
\* the order given, up to the first that raises
Broadcast(h, role, order, arg) ==
    LET bad == {i \in 1..Len(order) : order[i] \in h.failing}
        n == IF bad = {} THEN Len(order)
             ELSE CHOOSE i \in bad : \A j \in bad : i <= j
    IN  [h EXCEPT !.called = @ \o [i \in 1..n |->
                                      [role |-> role, cb |-> order[i],
                                       arg |-> arg]],
                  !.raised = (bad # {})]

\* BaseCubeConnection._notify_state_change
notify_state_change(h) ==
    IF h.raised THEN h
    ELSE Broadcast([h EXCEPT !.notified = @ + 1], "state", h.state_order,
                   "none")

\* GiikerConnection._notify_state_change
giiker_notify_state_change(h) ==
    IF h.raised THEN h ELSE Caught(notify_state_change(h))

\* asyncio.create_task(coro)
create_task(h, coro) ==
    IF h.raised THEN h ELSE [h EXCEPT !.spawned = Append(@, coro)]

\* BaseCubeConnection._notify_movement: the subscribers are called with
\* move and see CubeState and the mirror as they are at that moment
notify_movement(h, move) ==
    IF h.raised THEN h
    ELSE Broadcast(
             [h EXCEPT !.fired = Append(@, move),
                       !.trail = Append(@, [state_string |-> h.data.state_string,
                                            last_move |-> h.data.last_move,
                                            cube |-> h.cube])],
             "move", h.move_order, move)

\* (mutant) the movement callback fired before CubeState is updated
ReportBeforeUpdate(h, m, c, facelets) ==
    [notify_movement([h EXCEPT !.cube = c], Notation(m))
        EXCEPT !.data = update_cube_state(
                            [h.data EXCEPT !.last_move = Notation(m)], facelets)]

\* data.last_move = move; update_cube_state(data, facelets);
\* _notify_movement(move), with the mirror now at c
Report(h, m, c, facelets) ==
    notify_movement(
        [h EXCEPT !.cube = c,
                  !.data = update_cube_state(
                               [h.data EXCEPT !.last_move = Notation(m)],
                               facelets)],
        Notation(m))

Turned(h, m, c) == Report(h, m, c, to_facelet(c))

\* One turn of a frame: apply_move_index (twice for a half turn of GAN v1),
\* then the report of it.
ApplyTurn(h, m, power, times) ==
    Turned(h, m, IF times = 2
                 THEN apply_move_index(
                          apply_move_index(h.cube, m.face * 3 + power),
                          m.face * 3 + power)
                 ELSE apply_move_index(h.cube, m.face * 3 + power))

Power(m) == IF m.suffix = "'" THEN 2 ELSE 0

\* GoCubeConnection._handle_move_message from move byte i on
\* after the movement callback of move i: _notify_state_change, and the
\* state re-request when i == 0
GoCubeAfterMove(h, i) ==
    IF i = 0 THEN create_task(notify_state_change(h), "request_state")
    ELSE notify_state_change(h)

RECURSIVE GoCubeMoves(_, _, _)
GoCubeMoves(h, q, i) ==
    IF q = <<>> \/ h.raised THEN h
    ELSE IF Head(q) \div 2 > 5 THEN Raise(h)
    ELSE LET m == Turn(AXIS_PERM[Head(q) \div 2],
                       IF Head(q) % 2 = 0 THEN "" ELSE "'")
         IN  GoCubeMoves(GoCubeAfterMove(ApplyTurn(h, m, Power(m), 1), i),
                         Tail(q), i + 1)

handle_move_message(h, f) ==
    IF Len(f.moves) <= 0 THEN h
    ELSE GoCubeMoves([h EXCEPT !.applied = TRUE], f.moves, 0)

FACE_PERM == Arr(<<0, 1, 2, 5, 8, 7, 6, 3>>)
FACE_OFFSET == Arr(<<0, 0, 6, 2, 0, 0>>)
GoCubeLetters == Arr(<<"B", "F", "U", "D", "R", "L">>)

\* _handle_state_message, the facelet list: tile p (from 0) of the string is
\* byte 0 of block a for the centre of face AXIS_PERM[a], byte i + 1 for
\* the tile FACE_PERM[(i + FACE_OFFSET[a]) % 8] of it
GoCubeFacelet(body) ==
    [p \in 1..54 |->
        LET a == CHOOSE k \in 0..5 : AXIS_PERM[k] = (p - 1) \div 9
            t == (p - 1) % 9
        IN  IF t = 4 THEN GoCubeLetters[body[a * 9 + 1]]
            ELSE LET i == CHOOSE k \in 0..7 :
                              FACE_PERM[(k + FACE_OFFSET[a]) % 8] = t
                 IN  GoCubeLetters[body[a * 9 + i + 2]]]

\* GoCubeConnection._handle_state_message; body is data[3:]
handle_state_message(h, f) ==
    IF Len(f.body) < 6 * 9 THEN h
    ELSE IF \E i \in 1..54 : f.body[i] > 5 THEN Raise(h)
    ELSE notify_state_change(
             [h EXCEPT !.cube = from_facelet(h.cube, GoCubeFacelet(f.body)),
                       !.data = update_cube_state(h.data,
                                                  GoCubeFacelet(f.body))])

\* GoCubeConnection._notification_handler, for the rotation and the state
\* messages
gocube_notification_handler(h, f) ==
    IF "body" \in DOMAIN f THEN handle_state_message(h, f)
    ELSE handle_move_message(h, f)

Reverse(q) == [i \in 1..Len(q) |-> q[Len(q) + 1 - i]]

\* (mutant) _apply_moves without reversed()
apply_moves_forward(moves) == moves

\* the order in which _apply_moves walks the list it is given
apply_moves_order(moves) == Reverse(moves)

RECURSIVE ApplyEach(_, _)
ApplyEach(h, q) ==
    IF q = <<>> \/ h.raised THEN h
    ELSE ApplyEach(ApplyTurn(h, Head(q), Power(Head(q)), 1), Tail(q))

\* GanConnection._apply_moves
apply_moves(h, moves) ==
    IF moves = <<>> THEN h
    ELSE notify_state_change(ApplyEach(h, apply_moves_order(moves)))

\* (mutant) a handler that never takes a counter for a repeated one
DuplicateNever(cnt, cur) == FALSE

\* the test `move_cnt == self._move_cnt` of the GAN move branches
Duplicate(cnt, cur) == cnt = cur

\* GanConnection._parse_v1 from move i on: "URFDLB"[m // 3] raises on m > 17
RECURSIVE V1Moves(_, _)
V1Moves(h, q) ==
    IF h.raised THEN h
    ELSE IF q = <<>> THEN notify_state_change(h)
    ELSE IF Head(q) \div 3 > 5 THEN Raise(h)
    ELSE LET m == Turn(Head(q) \div 3, <<"", "2", "'">>[(Head(q) % 3) + 1])
         IN  V1Moves(ApplyTurn(h, m, Power(m),
                               IF m.suffix = "2" THEN 2 ELSE 1), Tail(q))

parse_v1(h, f) ==
    IF Duplicate(f.cnt, h.move_cnt) THEN h
    ELSE V1Moves([h EXCEPT !.move_cnt = f.cnt, !.applied = TRUE], f.moves)

\* self._move_cnt = move_cnt after _apply_moves has returned
StoreCounter(h, cnt) == IF h.raised THEN h ELSE [h EXCEPT !.move_cnt = cnt]

\* GanConnection._parse_v2, mode 2: the slots with m >= 12 are skipped
V2Turn(m) == Turn(m \div 2, IF m % 2 = 1 THEN "'" ELSE "")

V2Moves(q) ==
    LET Used(m) == m < 12
        kept == SelectSeq(q, Used)
    IN  [i \in 1..Len(kept) |-> V2Turn(kept[i])]

parse_v2(h, f) ==
    IF Duplicate(f.cnt, h.move_cnt) \/ h.move_cnt = -1
    THEN [h EXCEPT !.move_cnt = f.cnt]
    ELSE StoreCounter(apply_moves([h EXCEPT !.applied = TRUE],
                                  V2Moves(f.moves)), f.cnt)

\* GanConnection._parse_v3, mode 1 (and _parse_v4, mode 0x01): list.index
\* raises on axis bits that are not in the list
V3Turn(f) ==
    Turn((CHOOSE i \in 1..6 : GanAxisBits[i] = f.axis) - 1,
         IF f.pow = 1 THEN "'" ELSE "")

parse_v3(h, f) ==
    IF Duplicate(f.cnt, h.move_cnt) \/ h.move_cnt = -1
    THEN [h EXCEPT !.move_cnt = f.cnt]
    ELSE IF ~\E i \in 1..6 : GanAxisBits[i] = f.axis
    THEN Raise([h EXCEPT !.applied = TRUE])
    ELSE StoreCounter(apply_moves([h EXCEPT !.applied = TRUE],
                                  <<V3Turn(f)>>), f.cnt)

\* ------------------------------------------------- Giiker (giiker.py)
DECRYPTION_KEY == Arr(<<176, 81, 104, 224, 86, 137, 237, 119, 38, 26, 193,
                        161, 210, 126, 150, 81, 93, 13, 236, 249, 89, 235, 88,
                        24, 113, 81, 214, 131, 130, 199, 2, 169, 39, 165, 171,
                        41>>)
\* COLOR_FACE_MAPPING[COLORS[i]]
GiikerColorLetter == Arr(<<"B", "D", "L", "U", "R", "F">>)
FACES == <<"B", "D", "L", "U", "R", "F">>
CORNER_COLORS == <<<<1, 4, 5>>, <<4, 3, 5>>, <<3, 2, 5>>, <<2, 1, 5>>,
                   <<4, 1, 0>>, <<3, 4, 0>>, <<2, 3, 0>>, <<1, 2, 0>>>>
EDGE_COLORS == <<<<5, 1>>, <<5, 4>>, <<5, 3>>, <<5, 2>>, <<1, 4>>, <<3, 4>>,
                 <<3, 2>>, <<1, 2>>, <<0, 1>>, <<0, 4>>, <<0, 3>>, <<0, 2>>>>
CORNER_FACE_INDICES == Arr(<<<<29, 15, 26>>, <<9, 8, 20>>, <<6, 38, 18>>,
                             <<44, 27, 24>>, <<17, 35, 51>>, <<2, 11, 45>>,
                             <<36, 0, 47>>, <<33, 42, 53>>>>)
EDGE_FACE_INDICES == Arr(<<<<25, 28>>, <<23, 12>>, <<19, 7>>, <<21, 41>>,
                           <<32, 16>>, <<5, 10>>, <<3, 37>>, <<30, 43>>,
                           <<52, 34>>, <<48, 14>>, <<46, 1>>, <<50, 39>>>>)

\* GiikerDataParser._get_nibble on the 0-based byte list b
get_nibble(b, index) ==
    IF index % 2 = 1 THEN b[index \div 2] % 16 ELSE (b[index \div 2] \div 16) % 16

\* (mutant) only the key byte of the first offset is added
decrypt_one_key(raw) ==
    LET b == Arr(raw)
    IN  IF Len(raw) >= 20 /\ b[18] = 167
        THEN [i \in 1..Len(raw) |->
                 IF i <= 20
                 THEN (raw[i] + DECRYPTION_KEY[(get_nibble(b, 38) + i - 1) % 36])
                      % 256
                 ELSE raw[i]]
        ELSE raw

\* _is_encrypted and _decrypt_in_place; raw is a 1-based sequence of bytes
decrypt(raw) ==
    LET b == Arr(raw)
    IN  IF Len(raw) >= 20 /\ b[18] = 167
        THEN [i \in 1..Len(raw) |->
                 IF i <= 20
                 THEN (raw[i] + DECRYPTION_KEY[(get_nibble(b, 38) + i - 1) % 36]
                              + DECRYPTION_KEY[(get_nibble(b, 39) + i - 1) % 36])
                      % 256
                 ELSE raw[i]]
        ELSE raw

\* the nibbles of the bytes lo .. hi - 1 (0-based) that the frame holds
Nibbles(d, lo, hi) ==
    LET n == IF Len(d) < hi THEN (IF Len(d) < lo THEN 0 ELSE Len(d) - lo)
             ELSE hi - lo
    IN  [k \in 0..(2 * n - 1) |-> get_nibble(Arr(d), 2 * lo + k)]

\* the edge orientation flags: 8 of byte 14, the upper 4 of byte 15
EdgeFlags(d) ==
    LET n == IF Len(d) >= 16 THEN 12 ELSE IF Len(d) = 15 THEN 8 ELSE 0
    IN  [k \in 0..(n - 1) |-> (d[15 + (k \div 8)] \div (2 ^ (7 - (k % 8)))) % 2 = 1]

\* GiikerDataParser._parse_move
parse_move(face_index, turn_index) ==
    IF face_index <= 0 \/ face_index > 6 THEN "?"
    ELSE FACES[face_index] \o
         (CASE turn_index - 1 = 1 -> "2"
            [] turn_index - 1 = 2 -> "'"
            [] turn_index - 1 = 8 -> "2'"
            [] OTHER -> "")

\* GiikerDataParser._parse_cube_payload
parse_cube_payload(d) ==
    [corner_positions |-> Nibbles(d, 0, 4),
     corner_orientations |-> Nibbles(d, 4, 8),
     edge_positions |-> Nibbles(d, 8, 14),
     edge_orientations |-> EdgeFlags(d),
     moves |-> [k \in 1..(IF Len(d) > 16 THEN Len(d) - 16 ELSE 0) |->
                   parse_move(d[16 + k] \div 16, d[16 + k] % 16)]]

\* GiikerDataParser._map_corner_colors
map_corner_colors(colors, orientation, position) ==
    LET o == IF orientation # 3 /\ position \in {0, 2, 5, 7}
             THEN 3 - orientation ELSE orientation
    IN  IF o = 1 THEN <<colors[2], colors[3], colors[1]>>
        ELSE IF o = 2 THEN <<colors[3], colors[1], colors[2]>>
        ELSE colors

\* GiikerDataParser._map_edge_colors
map_edge_colors(colors, orientation) ==
    IF orientation THEN <<colors[2], colors[1]>> ELSE colors

\* the corner (edge) slot and sticker that _build_state writes tile t from
GiikerCornerAt == [t \in 0..53 |->
    IF \E i \in 0..7, k \in 1..3 : CORNER_FACE_INDICES[i][k] = t
    THEN CHOOSE ik \in (0..7) \X (1..3) : CORNER_FACE_INDICES[ik[1]][ik[2]] = t
    ELSE <<8, 0>>]

GiikerEdgeAt == [t \in 0..53 |->
    IF \E i \in 0..11, k \in 1..2 : EDGE_FACE_INDICES[i][k] = t
    THEN CHOOSE ik \in (0..11) \X (1..2) : EDGE_FACE_INDICES[ik[1]][ik[2]] = t
    ELSE <<12, 0>>]

\* (mutant) a corner loop that takes an unknown position for position 1
CornerTileDefaulted(st, index, k) ==
    LET position == IF index \in DOMAIN st.corner_positions
                    THEN st.corner_positions[index] ELSE 1
        p == IF position <= 0 \/ position > 8 THEN 1 ELSE position
        o == IF index \in DOMAIN st.corner_orientations
             THEN st.corner_orientations[index] ELSE 3
    IN  GiikerColorLetter[map_corner_colors(CORNER_COLORS[p], o, index)[k]]

\* _build_state, corner loop: sticker k of the corner slot index, "?" when
\* the slot is skipped
CornerTile(st, index, k) ==
    IF index \notin DOMAIN st.corner_positions THEN "?"
    ELSE IF st.corner_positions[index] <= 0 \/ st.corner_positions[index] > 8
    THEN "?"
    ELSE IF index \notin DOMAIN st.corner_orientations THEN "?"
    ELSE GiikerColorLetter[
             map_corner_colors(CORNER_COLORS[st.corner_positions[index]],
                               st.corner_orientations[index], index)[k]]

\* _build_state, edge loop
EdgeTile(st, index, k) ==
    IF index \notin DOMAIN st.edge_positions THEN "?"
    ELSE IF st.edge_positions[index] <= 0 \/ st.edge_positions[index] > 12
    THEN "?"
    ELSE IF index \notin DOMAIN st.edge_orientations THEN "?"
    ELSE GiikerColorLetter[
             map_edge_colors(EDGE_COLORS[st.edge_positions[index]],
                             st.edge_orientations[index])[k]]

\* _build_state: the 54 tiles; the edge loop runs after the corner loop and
\* the centres are written last
GiikerFaces(st) ==
    [i \in 1..54 |->
        IF (i - 1) % 9 = 4 THEN FaceLetters[(i - 1) \div 9]
        ELSE IF GiikerEdgeAt[i - 1][1] < 12
        THEN EdgeTile(st, GiikerEdgeAt[i - 1][1], GiikerEdgeAt[i - 1][2])
        ELSE IF GiikerCornerAt[i - 1][1] < 8
        THEN CornerTile(st, GiikerCornerAt[i - 1][1], GiikerCornerAt[i - 1][2])
        ELSE "?"]

\* _build_state: face_states from the tiles, is_solved from face_states
build_state(st) ==
    [state_string |-> GiikerFaces(st),
     face_states |-> [c \in DOMAIN COLOR_FACE_MAPPING |->
                         \A i \in FACE_TILE_INDICES(COLOR_FACE_MAPPING[c]) :
                             GiikerFaces(st)[i] = COLOR_FACE_MAPPING[c]],
     is_solved |-> \A c \in DOMAIN COLOR_FACE_MAPPING :
                       \A i \in FACE_TILE_INDICES(COLOR_FACE_MAPPING[c]) :
                           GiikerFaces(st)[i] = COLOR_FACE_MAPPING[c]]

\* GiikerDataParser.parse_cube_value from the decrypted payload on
ParsedCube(h, st, built) ==
    [h EXCEPT !.data = [h.data EXCEPT
                           !.state_string = built.state_string,
                           !.face_states = built.face_states,
                           !.is_solved = built.is_solved,
                           !.last_move = IF st.moves # <<>> THEN st.moves[1]
                                         ELSE @]]

ParsePayload(h, st) == ParsedCube(h, st, build_state(st))

\* GiikerConnection._cube_notification_handler; f.raw is the notification
cube_notification_handler(h, f) ==
    IF f.raw = <<>> THEN Caught(giiker_notify_state_change(h))
    ELSE IF parse_cube_payload(decrypt(f.raw)).moves # <<>>
    THEN Caught(giiker_notify_state_change(
             notify_movement(
                 ParsePayload(h, parse_cube_payload(decrypt(f.raw))),
                 parse_cube_payload(decrypt(f.raw)).moves[1])))
    ELSE Caught(giiker_notify_state_change(
             ParsePayload(h, parse_cube_payload(decrypt(f.raw)))))

\* ------------------------------------------------ QiYi (qiyicube.py)
\* A QiYi notification is given by its plain text msg, the AES blocks that
\* decrypt_block returns one after the other, and by tail, the number of
\* bytes after the last full block (decrypt_block raises on them).
\* Samples: a move frame (opcode 3, declared length 38, padded to 48) whose
\* bytes 3 and 4 are the CRC of FE 05 03; a state frame (opcode 2); the
\* move frame with a facelet byte altered, with the length byte altered to
\* 5, and with a padding byte altered; a frame of opcode 4; a move frame
\* that starts with FD; move frames with a tile nibble 6, with move byte 13
\* and with move byte 0; the empty notification.
QiYiMsgs == {
    <<254, 38, 3, 83, 97, 17, 34, 52, 67, 51, 52, 19, 17, 17, 17, 17, 66,
      36, 68, 66, 84, 34, 37, 82, 34, 0, 0, 0, 0, 80, 53, 85, 83, 53, 1, 85,
      49, 99, 0, 0, 0, 0, 0, 0, 0, 0, 0, 0>>,
    <<254, 38, 2, 0, 0, 0, 1, 51, 51, 51, 51, 19, 17, 17, 17, 17, 68, 68,
      68, 68, 36, 34, 34, 34, 34, 0, 0, 0, 0, 80, 85, 85, 85, 85, 0, 75, 88,
      142, 0, 0, 0, 0, 0, 0, 0, 0, 0, 0>>,
    <<254, 38, 3, 83, 97, 17, 34, 52, 67, 51, 36, 19, 17, 17, 17, 17, 66,
      36, 68, 66, 84, 34, 37, 82, 34, 0, 0, 0, 0, 80, 53, 85, 83, 53, 1, 85,
      49, 99, 0, 0, 0, 0, 0, 0, 0, 0, 0, 0>>,
    <<254, 5, 3, 83, 97, 17, 34, 52, 67, 51, 52, 19, 17, 17, 17, 17, 66, 36,
      68, 66, 84, 34, 37, 82, 34, 0, 0, 0, 0, 80, 53, 85, 83, 53, 1, 85, 49,
      99, 0, 0, 0, 0, 0, 0, 0, 0, 0, 0>>,
    <<254, 38, 3, 83, 97, 17, 34, 52, 67, 51, 52, 19, 17, 17, 17, 17, 66,
      36, 68, 66, 84, 34, 37, 82, 34, 0, 0, 0, 0, 80, 53, 85, 83, 53, 1, 85,
      49, 99, 0, 0, 1, 0, 0, 0, 0, 0, 0, 0>>,
    <<254, 9, 4, 1, 2, 3, 4, 84, 153, 0, 0, 0, 0, 0, 0, 0>>,
    <<253, 38, 3, 0, 0, 0, 0, 51, 51, 51, 51, 19, 17, 17, 17, 17, 68, 68,
      68, 68, 36, 34, 34, 34, 34, 0, 0, 0, 0, 80, 85, 85, 85, 85, 1, 85, 153,
      141, 0, 0, 0, 0, 0, 0, 0, 0, 0, 0>>,
    <<254, 38, 3, 0, 0, 0, 2, 102, 51, 51, 51, 19, 17, 17, 17, 17, 68, 68,
      68, 68, 36, 34, 34, 34, 34, 0, 0, 0, 0, 80, 85, 85, 85, 85, 1, 85, 27,
      97, 0, 0, 0, 0, 0, 0, 0, 0, 0, 0>>,
    <<254, 38, 3, 0, 0, 0, 3, 51, 51, 51, 51, 19, 17, 17, 17, 17, 68, 68,
      68, 68, 36, 34, 34, 34, 34, 0, 0, 0, 0, 80, 85, 85, 85, 85, 13, 85, 223,
      91, 0, 0, 0, 0, 0, 0, 0, 0, 0, 0>>,
    <<254, 38, 3, 0, 0, 0, 4, 51, 51, 51, 51, 19, 17, 17, 17, 17, 68, 68,
      68, 68, 36, 34, 34, 34, 34, 0, 0, 0, 0, 80, 85, 85, 85, 85, 0, 85, 223,
      59, 0, 0, 0, 0, 0, 0, 0, 0, 0, 0>>,
    <<>>}

QiYiFrames == [msg : QiYiMsgs, tail : {0}]
              \cup {[msg |-> <<>>, tail |-> 4]}

\* a ^ b
RECURSIVE Xor(_, _)
Xor(a, b) ==
    IF a = 0 THEN b
    ELSE IF b = 0 THEN a
    ELSE 2 * Xor(a \div 2, b \div 2) + ((a + b) % 2)

\* (mutant) the shifts with the polynomial 0x8005
RECURSIVE CrcShiftUnreflected(_, _)
CrcShiftUnreflected(crc, k) ==
    IF k = 0 THEN crc
    ELSE CrcShiftUnreflected(IF crc % 2 = 1 THEN Xor(crc \div 2, 32773)
                             ELSE crc \div 2,
                             k - 1)

\* _crc16_modbus, the inner loop: k shifts of crc
RECURSIVE CrcShift(_, _)
CrcShift(crc, k) ==
    IF k = 0 THEN crc
    ELSE CrcShift(IF crc % 2 = 1 THEN Xor(crc \div 2, 40961) ELSE crc \div 2,
                  k - 1)

\* _crc16_modbus, the outer loop over the bytes q
\* (crc is never negative: the test has the running value computed before
\* the next byte is taken)
RECURSIVE CrcFrom(_, _)
CrcFrom(crc, q) ==
    IF crc < 0 \/ q = <<>> THEN crc
    ELSE CrcFrom(CrcShift(Xor(crc, Head(q)), 8), Tail(q))

crc16_modbus(q) == CrcFrom(65535, q) % 65536

Min(a, b) == IF a < b THEN a ELSE b

\* msg[: msg[1]] if len(msg) > 1 else msg
Declared(msg) ==
    IF Len(msg) > 1 THEN SubSeq(msg, 1, Min(msg[2], Len(msg))) ELSE msg

\* (mutant) the frame check without the CRC
CrcFailsNever(msg) == Len(msg) < 3

\* len(msg) < 3 or _crc16_modbus(msg) != 0
CrcFails(msg) == Len(msg) < 3 \/ crc16_modbus(msg) # 0

QiYiLetters == Arr(<<"L", "R", "D", "U", "F", "B">>)

\* _parse_facelet: the nibble of tile i (from 0) of face_msg
QiYiNibble(face_msg, i) ==
    IF i % 2 = 0 THEN face_msg[i \div 2 + 1] % 16
    ELSE (face_msg[i \div 2 + 1] \div 16) % 16

\* _parse_facelet returns: face_msg has the 27 bytes and every nibble is a
\* letter of "LRDUFB"
FaceletOk(face_msg) ==
    /\ Len(face_msg) >= 27
    /\ \A i \in 0..53 : QiYiNibble(face_msg, i) <= 5

parse_facelet(face_msg) ==
    [p \in 1..54 |-> QiYiLetters[QiYiNibble(face_msg, p - 1)]]

\* _parse_move for 1 <= raw <= 12
qiyi_parse_move(raw) ==
    FaceLetters[Arr(<<4, 1, 3, 0, 2, 5>>)[(raw - 1) \div 2]]
    \o (IF raw % 2 = 1 THEN "'" ELSE "")

\* msg[2:7]
AckPayload(msg) == SubSeq(msg, 3, Min(7, Len(msg)))

\* (mutant) every opcode is acknowledged
NeedsAckAlways(opcode) == TRUE

\* opcode in (0x02, 0x03)
NeedsAck(opcode) == opcode \in {2, 3}

\* _send_ack: the write is left to a task
send_ack(h, payload) ==
    IF payload = <<>> THEN h
    ELSE create_task(h, [coro |-> "send_message", content |-> payload])

\* _parse_message, opcode 0x02
QiYiState(h, msg) ==
    IF Len(msg) < 36 THEN Raise(h)
    ELSE IF ~FaceletOk(SubSeq(msg, 8, 34))
    THEN Raise([h EXCEPT !.data.battery_level = msg[36]])
    ELSE notify_state_change(
             [h EXCEPT !.data = update_cube_state(
                                    [@ EXCEPT !.battery_level = msg[36]],
                                    parse_facelet(SubSeq(msg, 8, 34)))])

\* _parse_message, opcode 0x03, after update_cube_state
QiYiMove(h, msg) ==
    IF Len(msg) < 35 \/ msg[35] > 12 THEN Raise(h)
    ELSE IF msg[35] <= 0 THEN notify_state_change(h)
    ELSE notify_state_change(
             notify_movement(
                 [h EXCEPT !.data.last_move = qiyi_parse_move(msg[35])],
                 qiyi_parse_move(msg[35])))

\* _parse_message after the acknowledgement
QiYiParsed(h, msg) ==
    IF msg[3] = 2 THEN QiYiState(h, msg)
    ELSE IF msg[3] = 3
    THEN IF ~FaceletOk(SubSeq(msg, 8, Min(34, Len(msg)))) THEN Raise(h)
         ELSE QiYiMove(
                  [h EXCEPT !.data = update_cube_state(
                                         @, parse_facelet(SubSeq(msg, 8, 34)))],
                  msg)
    ELSE h

\* QiYiConnection._parse_message
parse_message(h, msg) ==
    IF msg[1] # 254 THEN h
    ELSE IF NeedsAck(msg[3])
    THEN QiYiParsed(send_ack(h, AckPayload(msg)), msg)
    ELSE QiYiParsed(h, msg)

\* QiYiConnection._notification_handler; _decoder is set while the session
\* is up
qiyi_notification_handler(h, f) ==
    IF f.tail # 0 THEN Raise(h)
    ELSE IF CrcFails(Declared(f.msg)) THEN h
    ELSE parse_message(h, Declared(f.msg))

\* the notifications the adapter a can be handed
Frames(a, v) ==
    IF a = "giiker" THEN [raw : GiikerRaw]
    ELSE IF a = "qiyi" THEN QiYiFrames
    ELSE IF a = "gocube"
    THEN [cnt : {0}, moves : GoCubeMoveBytes, pow : {0}, axis : {0}]
         \cup [body : GoCubeStateBodies]
    ELSE IF v = "v1"
    THEN [cnt : Counters, moves : GanV1Moves, pow : {0}, axis : {0}]
    ELSE IF v = "v2"
    THEN [cnt : Counters, moves : GanV2Slots, pow : {0}, axis : {0}]
    ELSE [cnt : Counters, moves : {<<>>}, pow : {0, 1}, axis : GanV3Axis]

\* _notification_handler of the adapter a; ru: GAN's _decoder is set
notification_handler(h, a, v, ru, f) ==
    IF a = "giiker" THEN cube_notification_handler(h, f)
    ELSE IF a = "gocube" THEN gocube_notification_handler(h, f)
    ELSE IF a = "qiyi" THEN qiyi_notification_handler(h, f)
    ELSE IF ~ru THEN h
    ELSE IF v = "v1" THEN parse_v1(h, f)
    ELSE IF v = "v2" THEN parse_v2(h, f)
    ELSE parse_v3(h, f)

\* A session is up: connect() has returned on client 1, or on GAN v1 has
\* raised in _request_v1_state, which leaves the session as it is.
SessionUp ==
    /\ is_connected = TRUE
    /\ client = 1
    /\ read_uuid = (kind = "gan")
    /\ connection_lock = 0
    /\ seen_connected = TRUE
    /\ link = [c \in Clients |-> IF c = 1 THEN "up" ELSE "unborn"]
    /\ notifying = [c \in Clients |-> c = 1]
    /\ n_opened = 1
    /\ pc = [t \in Tasks |-> "idle"]
    /\ call = [t \in Tasks |-> IF t = 1 THEN [op |-> "connect", dev |-> TRUE]
                                ELSE [op |-> "none", dev |-> FALSE]]
    /\ tgt = [t \in Tasks |-> 0]
    /\ hs = [t \in Tasks |-> 0]
    /\ ret_connected = [t \in Tasks |-> t = 1]
    /\ ret_seen = [t \in Tasks |-> t = 1]
    /\ ret_client = [t \in Tasks |-> IF t = 1 THEN 1 ELSE 0]
    /\ old_client = [t \in Tasks |-> 0]
    /\ did_io = [t \in Tasks |-> t = 1]
    /\ overlap = FALSE
    /\ hs_done = TRUE
    /\ ops_failed = FALSE
    /\ close_failed = {}
    /\ n_calls = 1
    /\ n_drops = 0

FramesInit ==
    /\ kind \in {"giiker", "gocube", "gan"}
    /\ version \in IF kind = "gan" THEN {"v1", "v2", "v3"} ELSE {"none"}
    /\ SessionUp
    /\ \E decoded \in IF version = "v1" THEN GanV1StateReads ELSE {<<>>} :
           LET r == IF version = "v1"
                    THEN request_v1_state(NoData, SolvedCube, decoded)
                    ELSE [data |-> NoData, cube |-> SolvedCube,
                          raised |-> FALSE]
           IN  /\ Fresh(r.data, r.cube)
               /\ NoSubscribers
               /\ result = [t \in Tasks |->
                               IF t # 1 THEN "none"
                               ELSE IF r.raised THEN "raised" ELSE "ok"]

\* the orders in which a loop can meet the members of the set S
Orders(S) ==
    {q \in [1..Cardinality(S) -> S] : \A i, j \in DOMAIN q :
                                           q[i] = q[j] => i = j}

\* The adapter after the handler run h on the frame f; hi is the run with
\* callbacks that do not raise.
Handled(h, hi, f) ==
    /\ called' = h.called
    /\ ideal' = [data |-> hi.data, cube |-> hi.cube, move_cnt |-> hi.move_cnt,
                 called |-> hi.called]
    /\ cube' = h.cube
    /\ move_cnt' = h.move_cnt
    /\ data' = h.data
    /\ fired' = h.fired
    /\ trail' = h.trail
    /\ raised' = h.raised
    /\ applied' = h.applied
    /\ notified' = h.notified
    /\ spawned' = h.spawned
    /\ last_frame' = f
    /\ frame_client' = client
    /\ prev' = [frame |-> last_frame, data |-> data, cube |-> cube,
                applied |-> applied, raised |-> raised]

\* h is the run on f as it is; the run with callbacks that do not raise is
\* h itself when no callback raises
HandledBoth(h, so, mo, f) ==
    Handled(h,
            IF failing = {} THEN h
            ELSE notification_handler(Handler(so, mo, {}), kind, version,
                                      read_uuid, f),
            f)

\* The transport hands the frame f to the notification handler.
HandleFrame(f) ==
    /\ client # 0
    /\ notifying[client]
    /\ n_frames < MaxFrames
    /\ n_frames' = n_frames + 1
    /\ \E so \in Orders(state_callbacks), mo \in Orders(movement_callbacks) :
           HandledBoth(notification_handler(Handler(so, mo, failing), kind,
                                            version, read_uuid, f),
                       so, mo, f)
    /\ UNCHANGED <<kind, version, inst_vars, net_vars, task_vars, hist_vars,
                   reg_vars, battery_vars, pure_vars>>

\* a move notification arrives
Deliver(f) == HandleFrame(f)

\* the last notification arrives a second time
Redeliver ==
    /\ n_frames >= 1
    /\ HandleFrame(last_frame)

NextFrames ==
    \/ \E f \in Frames(kind, version) : Deliver(f)
    \/ Redeliver

SpecFrames == FramesInit /\ [][NextFrames]_vars

\* The same for a QiYi session.
QiYiInit ==
    /\ kind = "qiyi"
    /\ version = "none"
    /\ SessionUp
    /\ result = [t \in Tasks |-> IF t = 1 THEN "ok" ELSE "none"]
    /\ Constructed

SpecQiYi == QiYiInit /\ [][NextFrames]_vars

(***************************************************************************)
(* Part 2b (SpecLate): a session is up, disconnect() is called, and the    *)
(* transport still hands notifications of the closed session to the        *)
(* notification handler after disconnect() has returned.                   *)
(***************************************************************************)
\* _notification_handler of the adapter a with self._client cl: QiYi's
\* _decoder is set after establish_connection and cleared with the client,
\* GAN's is cleared with _read_uuid
late_notification_handler(h, a, v, ru, cl, f) ==
    IF a = "qiyi" /\ cl = 0 THEN h
    ELSE notification_handler(h, a, v, ru, f)

\* disconnect() has returned and no client is held
Disconnected ==
    /\ client = 0
    /\ \E t \in Tasks : call[t].op = "disconnect" /\ result[t] = "ok"

\* The transport hands the frame f of the closed session to the
\* notification handler after disconnect() has returned.
LateDeliver(f) ==
    /\ Disconnected
    /\ n_frames < MaxFrames
    /\ n_frames' = n_frames + 1
    /\ \E so \in Orders(state_callbacks), mo \in Orders(movement_callbacks) :
           Handled(late_notification_handler(Handler(so, mo, failing), kind,
                                             version, read_uuid, client, f),
                   late_notification_handler(Handler(so, mo, {}), kind,
                                             version, read_uuid, client, f),
                   f)
    /\ UNCHANGED <<kind, version, inst_vars, net_vars, task_vars, hist_vars,
                   reg_vars, battery_vars, pure_vars>>

LateInit == FramesInit \/ QiYiInit

NextLate ==
    \/ \E t \in Tasks : CallDisconnect(t)
    \/ \E t \in Tasks, ok \in BOOLEAN : FirstCloseDone(t, ok)
    \/ \E t \in Tasks, ok \in BOOLEAN : StopNotifyDone(t, ok)
    \/ \E t \in Tasks, ok \in BOOLEAN : StopNotifySysDone(t, ok)
    \/ \E t \in Tasks, ok \in BOOLEAN : CleanupCloseDone(t, ok)
    \/ \E f \in Frames(kind, version) : LateDeliver(f)

SpecLate == LateInit /\ [][NextLate]_vars

(***************************************************************************)
(* Part 2c (SpecSessions): a GAN v2 or v3 session is up and takes move      *)
(* frames; the link may drop, connect() is called again and the new         *)
(* session takes move frames too.                                           *)
(***************************************************************************)
SessionsInit ==
    /\ FramesInit
    /\ kind = "gan"
    /\ version \in {"v2", "v3"}

\* move frames of a session: v2 with one and with two turns in the
\* history, v3 with a turn of U and of F
SessionFrames(v) ==
    IF v = "v2"
    THEN [cnt : Counters,
          moves : {<<0, 31, 31, 31, 31, 31, 31>>, <<0, 5, 31, 31, 31, 31, 31>>},
          pow : {0}, axis : {0}]
    ELSE [cnt : Counters, moves : {<<>>}, pow : {0}, axis : {2, 8}]

NextSessions ==
    \/ \E f \in SessionFrames(version) : Deliver(f)
    \/ \E c \in Clients : TransportClose(c)
    \/ \E t \in Tasks, dev \in BOOLEAN : CallConnect(t, dev)
    \/ \E t \in Tasks, ok \in BOOLEAN : StopNotifyDone(t, ok)
    \/ \E t \in Tasks, ok \in BOOLEAN : CleanupCloseDone(t, ok)
    \/ \E t \in Tasks, ok \in BOOLEAN : EstablishDone(t, ok)
    \/ \E t \in Tasks, ok \in BOOLEAN, supported \in BOOLEAN :
           HandshakeStepDone(t, ok, supported)

SpecSessions == SessionsInit /\ [][NextSessions]_vars

(***************************************************************************)
(* Part 3: the callback registry of BaseCubeConnection.  SpecRegistry      *)
(* makes the registry calls on a constructed adapter; SpecSubs delivers    *)
(* notifications to an adapter that has subscribers, some of which raise.  *)
(***************************************************************************)
\* (mutant) an unsubscribe that clears the set
unsubscribe_all(cbs, cb) == {}

\* unsubscribe(): if callback in self._state_callbacks: remove(callback)
unsubscribe(cbs, cb) == IF cb \in cbs THEN cbs \ {cb} ELSE cbs

\* set.discard(callback)
discard(cbs, cb) == cbs \ {cb}

\* what every registry call leaves alone, and the record of the call
RegistryCall(op, cb) ==
    /\ n_sub_ops < MaxSubOps
    /\ n_sub_ops' = n_sub_ops + 1
    /\ last_op' = [op |-> op, cb |-> cb, state |-> state_callbacks,
                   movement |-> movement_callbacks]
    /\ UNCHANGED <<kind, inst_vars, net_vars, task_vars, hist_vars,
                   frame_vars, failing, battery_vars, pure_vars>>

\* register_callback(cb), which returns the unsubscribe handle of cb
RegisterCallback(cb) ==
    /\ RegistryCall("register", cb)
    /\ state_callbacks' = state_callbacks \cup {cb}
    /\ handles' = handles \cup {cb}
    /\ UNCHANGED movement_callbacks

\* a call of the handle that register_callback(cb) returned
Unsubscribe(cb) ==
    /\ cb \in handles
    /\ RegistryCall("unsubscribe", cb)
    /\ state_callbacks' = unsubscribe(state_callbacks, cb)
    /\ UNCHANGED <<movement_callbacks, handles>>

AddMovementCallback(cb) ==
    /\ RegistryCall("add", cb)
    /\ movement_callbacks' = movement_callbacks \cup {cb}
    /\ UNCHANGED <<state_callbacks, handles>>

RemoveMovementCallback(cb) ==
    /\ RegistryCall("remove", cb)
    /\ movement_callbacks' = discard(movement_callbacks, cb)
    /\ UNCHANGED <<state_callbacks, handles>>

NextRegistry ==
    \/ \E cb \in Callbacks : RegisterCallback(cb)
    \/ \E cb \in Callbacks : Unsubscribe(cb)
    \/ \E cb \in Callbacks : AddMovementCallback(cb)
    \/ \E cb \in Callbacks : RemoveMovementCallback(cb)

SpecRegistry == Init /\ [][NextRegistry]_vars

\* The registry call that the subscriber actor makes from inside its
\* callback: register_callback(target) or the unsubscribe handle of target
\* in a state broadcast, add_movement_callback(target) or
\* remove_movement_callback(target) in a movement broadcast.
ReentrantCall(cbs, role, act, target) ==
    IF act = "add" THEN cbs \cup {target}
    ELSE IF role = "state" THEN unsubscribe(cbs, target)
    ELSE discard(cbs, target)

\* `for callback in self._state_callbacks: callback()` (and the loop of
\* _notify_movement) over the set cbs in the order given, when the
\* subscriber actor makes a registry call from inside its callback.  The
\* loop iterates the live set: the set iterator raises RuntimeError at its
\* next step, also at the step that would end the loop, when the set has
\* changed size since the loop began.
ReentrantNotify(role, order, actor, act, target) ==
    LET cbs == IF role = "state" THEN state_callbacks ELSE movement_callbacks
        after == ReentrantCall(cbs, role, act, target)
        resized == Cardinality(after) # Cardinality(cbs)
        n == IF resized THEN CHOOSE i \in 1..Len(order) : order[i] = actor
             ELSE Len(order)
    IN  /\ n_sub_ops < MaxSubOps
        /\ n_sub_ops' = n_sub_ops + 1
        /\ order \in Orders(cbs)
        /\ actor \in cbs
        /\ last_op' = [op |-> IF role = "state" THEN "notify_state"
                              ELSE "notify_movement",
                       cb |-> actor, state |-> state_callbacks,
                       movement |-> movement_callbacks]
        /\ state_callbacks' = IF role = "state" THEN after ELSE state_callbacks
        /\ movement_callbacks' = IF role = "state" THEN movement_callbacks
                                 ELSE after
        /\ handles' = IF role = "state" /\ act = "add"
                      THEN handles \cup {target} ELSE handles
        /\ called' = [i \in 1..n |-> [role |-> role, cb |-> order[i],
                                      arg |-> IF role = "state" THEN "none"
                                              ELSE "U"]]
        /\ raised' = resized
        /\ notified' = IF role = "state" THEN 1 ELSE 0
        /\ UNCHANGED <<kind, inst_vars, net_vars, task_vars, hist_vars,
                       failing, battery_vars, pure_vars, version, cube,
                       move_cnt, data, fired, trail, applied, last_frame,
                       prev, n_frames, spawned, ideal, frame_client>>

NextReentrant ==
    \/ \E cb \in Callbacks : RegisterCallback(cb)
    \/ \E cb \in Callbacks : AddMovementCallback(cb)
    \/ \E role \in {"state", "move"}, actor \in Callbacks,
          act \in {"add", "remove"}, target \in Callbacks :
           \E order \in Orders(IF role = "state" THEN state_callbacks
                                ELSE movement_callbacks) :
               ReentrantNotify(role, order, actor, act, target)

SpecReentrant == Init /\ [][NextReentrant]_vars

\* A session is up on an adapter that has subscribers; callback 1 may be
\* one that raises.
SubsInit ==
    /\ kind \in {"giiker", "gocube", "gan"}
    /\ version = IF kind = "gan" THEN "v2" ELSE "none"
    /\ SessionUp
    /\ result = [t \in Tasks |-> IF t = 1 THEN "ok" ELSE "none"]
    /\ Fresh(NoData, SolvedCube)
    /\ state_callbacks \in SUBSET Callbacks
    /\ movement_callbacks \in SUBSET Callbacks
    /\ failing \in {{}, {1}}
    /\ handles = state_callbacks
    /\ last_op = NoOp
    /\ n_sub_ops = 0

\* move notifications of one and of two turns
SubFrames(a) ==
    IF a = "giiker" THEN [raw : {q \in GiikerRaw : Len(q) = 20 /\ q[1] # 98}]
    ELSE IF a = "gocube"
    THEN [cnt : {0}, moves : {<<4>>, <<4, 3>>}, pow : {0}, axis : {0}]
    ELSE [cnt : Counters, moves : {<<0, 5, 31, 31, 31, 31, 31>>}, pow : {0},
          axis : {0}]

NextSubs ==
    \/ \E f \in SubFrames(kind) : Deliver(f)
    \/ Redeliver

SpecSubs == SubsInit /\ [][NextSubs]_vars

(***************************************************************************)
(* Part 4 (SpecBattery): the battery round trip of the Giiker adapter.     *)
(* request_battery() has two awaits, the write of 0xB5 and the bounded     *)
(* wait for the Event; one action is the stretch of the coroutine up to    *)
(* the next await, or one run of the system notification handler.          *)
(***************************************************************************)
\* system notifications: two battery reports and one of a single byte
BatteryReports == {<<181, 87>>, <<181, 60>>, <<181>>}

\* GiikerDataParser.parse_battery_value
parse_battery_value(d, raw) ==
    IF Len(raw) < 2 THEN d ELSE [d EXCEPT !.battery_level = raw[2]]

\* GiikerConnection._system_notification_handler without the Event
system_notification_handler(h, f) ==
    Caught(giiker_notify_state_change(
        [h EXCEPT !.data = parse_battery_value(@, f.raw)]))

\* if self._battery_event is not None: self._battery_event.set()
EventSet(event, set) == IF event # 0 THEN set \cup {event} ELSE set

\* the request r is in flight and no notification has arrived since it
\* was issued
Pending(r) == req[r].pc \in {"write", "wait"} /\ req[r].born \notin events_set

\* what the battery actions leave alone
BatteryStep ==
    UNCHANGED <<kind, inst_vars, net_vars, task_vars, hist_vars, frame_vars,
                reg_vars, n_reports, pure_vars>>

\* request_battery() up to the write of 0xB5: the call returns None with the
\* client gone, else it stores a new Event in self._battery_event
RequestBattery(r) ==
    /\ kind = "giiker"
    /\ req[r].pc = "idle"
    /\ \A q \in Requests : q < r => req[q].pc # "idle"
    /\ IF client = 0 \/ link[client] # "up"
       THEN /\ req' = [req EXCEPT ![r].pc = "done"]
            /\ UNCHANGED battery_event
       ELSE /\ battery_event' = r
            /\ req' = [q \in Requests |->
                          IF q = r
                          THEN [req[q] EXCEPT !.pc = "write", !.born = r]
                          ELSE IF Pending(q)
                          THEN [req[q] EXCEPT !.overtaken = TRUE]
                          ELSE req[q]]
    /\ UNCHANGED events_set
    /\ BatteryStep

\* The write has completed.  A failed write returns None; after the write
\* wait_for(self._battery_event.wait(), timeout=2.0) waits on the Event
\* that self._battery_event names when the coroutine resumes.
WriteDone(r, ok) ==
    /\ req[r].pc = "write"
    /\ IF ok /\ client # 0 /\ CanSucceed(client)
       THEN req' = [req EXCEPT ![r].pc = "wait", ![r].waits = battery_event]
       ELSE req' = [req EXCEPT ![r].pc = "done"]
    /\ UNCHANGED <<battery_event, events_set>>
    /\ BatteryStep

\* the Event of the wait is set: return self._data_parser.data.battery_level
BatteryWoken(r) ==
    /\ req[r].pc = "wait"
    /\ req[r].waits \in events_set
    /\ req' = [req EXCEPT ![r].pc = "done", ![r].result = data.battery_level]
    /\ UNCHANGED <<battery_event, events_set>>
    /\ BatteryStep

\* asyncio.TimeoutError after 2.0 s with the Event not set: return None
BatteryTimeout(r) ==
    /\ req[r].pc = "wait"
    /\ req[r].waits \notin events_set
    /\ req' = [req EXCEPT ![r].pc = "done"]
    /\ UNCHANGED <<battery_event, events_set>>
    /\ BatteryStep

\* The transport hands the system notification f to
\* _system_notification_handler.
SystemNotification(f) ==
    /\ kind = "giiker"
    /\ client # 0
    /\ link[client] = "up"
    /\ n_reports < MaxReports
    /\ n_reports' = n_reports + 1
    /\ events_set' = EventSet(battery_event, events_set)
    /\ \E so \in Orders(state_callbacks) :
           Handled(system_notification_handler(Handler(so, <<>>, failing), f),
                   system_notification_handler(Handler(so, <<>>, {}), f), f)
    /\ UNCHANGED <<kind, version, n_frames, inst_vars, net_vars, task_vars,
                   hist_vars, reg_vars, battery_event, req, pure_vars>>

\* A Giiker session is up and no battery request has been made.
BatteryInit ==
    /\ kind = "giiker"
    /\ version = "none"
    /\ SessionUp
    /\ result = [t \in Tasks |-> IF t = 1 THEN "ok" ELSE "none"]
    /\ Constructed

NextBattery ==
    \/ \E r \in Requests : RequestBattery(r)
    \/ \E r \in Requests, ok \in BOOLEAN : WriteDone(r, ok)
    \/ \E r \in Requests : BatteryWoken(r)
    \/ \E r \in Requests : BatteryTimeout(r)
    \/ \E f \in [raw : BatteryReports] : SystemNotification(f)
    \/ \E c \in Clients : TransportClose(c)

SpecBattery == BatteryInit /\ [][NextBattery]_vars

(***************************************************************************)
(* Part 5 (SpecPure): the module-level helpers on their own.  A behaviour  *)
(* is one call: the initial state holds the helper and its argument, the   *)
(* action is the call, and fn_ret holds what it returned.                  *)
(***************************************************************************)
\* the facelet string of the solved cube
SolvedString == to_facelet(SolvedCube)
Letters == {FaceLetters[k] : k \in 0..5}

\* state strings: the solved one, the solved one with one tile replaced,
\* one of 53 tiles and the empty one
FaceletStrings ==
    {SolvedString} \cup {SubSeq(SolvedString, 1, 53), <<>>}
    \cup {[SolvedString EXCEPT ![i] = l] : i \in 1..54, l \in Letters}

\* ------------------------------------------------ registry (registry.py)
\* Strings are sequences of characters.
CUBE_MODELS == <<
    [cube_type |-> "giiker",
     name_prefixes |-> <<
        <<"G", "i">>,
        <<"H", "i", "-">>,
        <<"H", "i", "G">>,
        <<"H", "i", "-", "G">>>>,
     service_uuids |-> <<
        <<"0", "0", "0", "0", "a", "a", "d", "b", "-", "0", "0", "0", "0",
        "-", "1", "0", "0", "0", "-", "8", "0", "0", "0", "-", "0", "0",
        "8", "0", "5", "f", "9", "b", "3", "4", "f", "b">>,
        <<"0", "0", "0", "0", "a", "a", "a", "a", "-", "0", "0", "0", "0",
        "-", "1", "0", "0", "0", "-", "8", "0", "0", "0", "-", "0", "0",
        "8", "0", "5", "f", "9", "b", "3", "4", "f", "b">>>>],
    [cube_type |-> "gocube",
     name_prefixes |-> <<
        <<"G", "o", "C", "u", "b", "e">>,
        <<"R", "u", "b", "i", "k", "s">>>>,
     service_uuids |-> <<
        <<"6", "e", "4", "0", "0", "0", "0", "1", "-", "b", "5", "a", "3",
        "-", "f", "3", "9", "3", "-", "e", "0", "a", "9", "-", "e", "5",
        "0", "e", "2", "4", "d", "c", "c", "a", "9", "e">>>>],
    [cube_type |-> "gan",
     name_prefixes |-> <<
        <<"G", "A", "N">>,
        <<"M", "G">>,
        <<"A", "i", "C", "u", "b", "e">>>>,
     service_uuids |-> <<
        <<"0", "0", "0", "0", "f", "f", "f", "0", "-", "0", "0", "0", "0",
        "-", "1", "0", "0", "0", "-", "8", "0", "0", "0", "-", "0", "0",
        "8", "0", "5", "f", "9", "b", "3", "4", "f", "b">>,
        <<"6", "e", "4", "0", "0", "0", "0", "1", "-", "b", "5", "a", "3",
        "-", "f", "3", "9", "3", "-", "e", "0", "a", "9", "-", "e", "5",
        "0", "e", "2", "4", "d", "c", "4", "1", "7", "9">>,
        <<"8", "6", "5", "3", "0", "0", "0", "a", "-", "4", "3", "e", "6",
        "-", "4", "7", "b", "7", "-", "9", "c", "b", "0", "-", "5", "f",
        "c", "2", "1", "d", "4", "a", "e", "3", "4", "0">>,
        <<"0", "0", "0", "0", "0", "0", "1", "0", "-", "0", "0", "0", "0",
        "-", "f", "f", "f", "7", "-", "f", "f", "f", "6", "-", "f", "f",
        "f", "5", "f", "f", "f", "4", "f", "f", "f", "0">>>>],
    [cube_type |-> "qiyi",
     name_prefixes |-> <<
        <<"Q", "Y", "-", "Q", "Y", "S", "C">>,
        <<"X", "M", "D", "-", "T", "o", "r", "n", "a", "d", "o", "V", "4",
        "-", "i">>>>,
     service_uuids |-> <<
        <<"0", "0", "0", "0", "f", "f", "f", "0", "-", "0", "0", "0", "0",
        "-", "1", "0", "0", "0", "-", "8", "0", "0", "0", "-", "0", "0",
        "8", "0", "5", "f", "9", "b", "3", "4", "f", "b">>>>] >>

\* name_value.startswith(prefix)
StartsWith(name, prefix) ==
    /\ Len(prefix) <= Len(name)
    /\ SubSeq(name, 1, Len(prefix)) = prefix

\* ch.lower() for the characters of a UUID
LowerChar(ch) ==
    CASE ch = "A" -> "a" [] ch = "B" -> "b" [] ch = "C" -> "c"
      [] ch = "D" -> "d" [] ch = "E" -> "e" [] ch = "F" -> "f"
      [] OTHER -> ch

Lower(str) == [i \in 1..Len(str) |-> LowerChar(str[i])]

\* the test of the loop body of match_advertisement on the model m
ModelMatches(m, name, uuids) ==
    \/ \E i \in DOMAIN m.name_prefixes : StartsWith(name, m.name_prefixes[i])
    \/ \E i \in DOMAIN m.service_uuids, suuid \in uuids :
           Lower(m.service_uuids[i]) = Lower(suuid)

\* match_advertisement(name, service_uuids): the cube_type of the model it
\* returns, "none" for None; name is <<>> for None or ""
match_advertisement(name, uuids) ==
    IF \E k \in DOMAIN CUBE_MODELS : ModelMatches(CUBE_MODELS[k], name, uuids)
    THEN CUBE_MODELS[CHOOSE k \in DOMAIN CUBE_MODELS :
             /\ ModelMatches(CUBE_MODELS[k], name, uuids)
             /\ \A j \in 1..(k - 1) :
                    ~ModelMatches(CUBE_MODELS[j], name, uuids)].cube_type
    ELSE "none"

\* advertised names: none, names of the four families, a name in lower
\* case, an unknown name, a name shorter than every prefix
AdvertisedNames == {
    <<>>,
    <<"G", "i", "C", "_", "1">>,
    <<"H", "i", "-", "G">>,
    <<"G", "o", "C", "u", "b", "e", "_", "x">>,
    <<"R", "u", "b", "i", "k", "s", "_", "a">>,
    <<"G", "A", "N", "-", "x">>,
    <<"M", "G", "3">>,
    <<"A", "i", "C", "u", "b", "e">>,
    <<"Q", "Y", "-", "Q", "Y", "S", "C", "-", "S">>,
    <<"X", "M", "D", "-", "T", "o", "r", "n", "a", "d", "o", "V", "4", "-",
    "i", "-", "1">>,
    <<"g", "a", "n">>,
    <<"U", "n", "k", "n", "o", "w", "n">>,
    <<"G">>}

\* advertised service UUIDs: one of Giiker, one of GoCube, the one that GAN
\* and QiYi share, one of GAN in upper case, and one of no model
AdvertisedUuids == {
    <<"0", "0", "0", "0", "a", "a", "d", "b", "-", "0", "0", "0", "0", "-",
    "1", "0", "0", "0", "-", "8", "0", "0", "0", "-", "0", "0", "8", "0",
    "5", "f", "9", "b", "3", "4", "f", "b">>,
    <<"6", "e", "4", "0", "0", "0", "0", "1", "-", "b", "5", "a", "3", "-",
    "f", "3", "9", "3", "-", "e", "0", "a", "9", "-", "e", "5", "0", "e",
    "2", "4", "d", "c", "c", "a", "9", "e">>,
    <<"0", "0", "0", "0", "f", "f", "f", "0", "-", "0", "0", "0", "0", "-",
    "1", "0", "0", "0", "-", "8", "0", "0", "0", "-", "0", "0", "8", "0",
    "5", "f", "9", "b", "3", "4", "f", "b">>,
    <<"6", "E", "4", "0", "0", "0", "0", "1", "-", "B", "5", "A", "3", "-",
    "F", "3", "9", "3", "-", "E", "0", "A", "9", "-", "E", "5", "0", "E",
    "2", "4", "D", "C", "4", "1", "7", "9">>,
    <<"0", "0", "0", "0", "1", "8", "0", "a", "-", "0", "0", "0", "0", "-",
    "1", "0", "0", "0", "-", "8", "0", "0", "0", "-", "0", "0", "8", "0",
    "5", "f", "9", "b", "3", "4", "f", "b">>}

\* strings for from_facelet: those, the cubes one move away from the solved
\* one, and the solved string with two tiles of a corner, and of an edge,
\* exchanged
PieceStrings ==
    FaceletStrings
    \cup {to_facelet(apply_move_index(SolvedCube, m)) : m \in 0..17}
    \cup {[SolvedString EXCEPT ![1] = SolvedString[10],
                               ![10] = SolvedString[1]],
          [SolvedString EXCEPT ![2] = SolvedString[11],
                               ![11] = SolvedString[2]],
          SolvedString \o <<"U">>}

\* the receiving CubieCube: a new one, and one that R was applied to
Receivers == {SolvedCube, apply_move_index(SolvedCube, 3)}

\* byte lists for _crc16_modbus: the Modbus request 01 03 00 00 00 0A, the
\* request with one byte replaced, and the request followed by its CRC,
\* low byte first and high byte first
ModbusRequest == <<1, 3, 0, 0, 0, 10>>
CrcInputs ==
    {ModbusRequest, ModbusRequest \o <<197, 205>>,
     ModbusRequest \o <<205, 197>>, <<>>}
    \cup {[ModbusRequest EXCEPT ![i] = b] :
             i \in 1..6, b \in {0, 1, 2, 3, 10, 16, 128, 255}}

\* a frame of 18 bytes followed by the bytes of tail
GiikerFrame(tail) ==
    <<18, 52, 86, 120, 51, 51, 51, 51, 18, 52, 86, 120, 154, 188, 0, 0, 17,
      49>> \o tail

\* Giiker notifications for the decoding: those of Part 2, and frames with
\* the mark 0xA7 and several offset bytes, of 20, 19 and 21 bytes, and a
\* frame of 20 bytes without the mark
DecryptInputs ==
    GiikerRaw
    \cup {GiikerFrame(<<167, o>>) : o \in {0, 15, 18, 92, 240, 255}}
    \cup {GiikerFrame(<<167>>), GiikerFrame(<<167, 92, 7>>),
          GiikerFrame(<<166, 92>>)}

\* ------------------------------------------- GanDecoder (gancube.py)
\* AesEcb wraps the AES of the cryptography package.  GanDecoder uses of it
\* only that encrypt_block and decrypt_block are, for one key, a bijection
\* of the 16-byte blocks and its inverse; here a key is [rot, mul, inv,
\* add] with mul * inv = 1 modulo 256, and encrypt_block rotates the block
\* by rot places and maps each byte b to mul * b + add modulo 256 (which
\* does not commute with the exclusive-or of an IV).
AesKeys == {[rot |-> 5, mul |-> 3, inv |-> 171, add |-> 77],
            [rot |-> 11, mul |-> 5, inv |-> 205, add |-> 200]}

encrypt_block(key, block) ==
    [i \in 1..16 |->
        (block[((i - 1 + key.rot) % 16) + 1] * key.mul + key.add) % 256]

decrypt_block(key, block) ==
    [j \in 1..16 |->
        ((block[((j - 1 + 16 - key.rot) % 16) + 1] + 256 - key.add) * key.inv)
        % 256]

\* block[i] ^ (self._iv[i] if i < len(self._iv) else 0) for the 16 bytes
XorIv(block, iv) ==
    [i \in 1..16 |-> Xor(block[i], IF i <= Len(iv) THEN iv[i] ELSE 0)]

\* ret[offset:offset + 16], and ret with that slice replaced by block
BlockAt(ret, offset) == SubSeq(ret, offset + 1, offset + 16)
Spliced(ret, offset, block) ==
    [i \in 1..Len(ret) |->
        IF i > offset /\ i <= offset + 16 THEN block[i - offset] ELSE ret[i]]

\* decode with an IV: the last block, if len(ret) > 16
DecodeLast(key, iv, ret) ==
    IF Len(ret) > 16
    THEN Spliced(ret, Len(ret) - 16,
                 XorIv(decrypt_block(key, BlockAt(ret, Len(ret) - 16)), iv))
    ELSE ret

\* decode with an IV: the first block
DecodeFirst(key, iv, ret) ==
    Spliced(ret, 0, XorIv(decrypt_block(key, BlockAt(ret, 0)), iv))

\* (mutant) the first block is undone before the last
DecodeFirstThenLast(key, iv, ret) ==
    DecodeLast(key, iv, DecodeFirst(key, iv, ret))

\* decode with an IV: the last block, then the first
DecodeLastThenFirst(key, iv, ret) ==
    DecodeFirst(key, iv, DecodeLast(key, iv, ret))

\* GanDecoder.decode
decode(key, iv, ret) ==
    IF iv # <<>> THEN DecodeLastThenFirst(key, iv, ret)
    ELSE decrypt_block(key, BlockAt(ret, 0)) \o SubSeq(ret, 17, Len(ret))

\* encode with an IV: the first block
EncodeFirst(key, iv, ret) ==
    Spliced(ret, 0, encrypt_block(key, XorIv(BlockAt(ret, 0), iv)))

\* encode with an IV: the last block, if len(ret) > 16
EncodeLast(key, iv, ret) ==
    IF Len(ret) > 16
    THEN Spliced(ret, Len(ret) - 16,
                 encrypt_block(key, XorIv(BlockAt(ret, Len(ret) - 16), iv)))
    ELSE ret

\* GanDecoder.encode
encode(key, iv, ret) ==
    IF iv = <<>>
    THEN encrypt_block(key, BlockAt(ret, 0)) \o SubSeq(ret, 17, Len(ret))
    ELSE EncodeLast(key, iv, EncodeFirst(key, iv, ret))

\* IVs: none, one of 16 bytes, one of 4 bytes
GanIvs == {<<>>,
           <<17, 3, 255, 128, 64, 9, 200, 31, 1, 2, 4, 8, 16, 32, 250, 7>>,
           <<90, 165, 60, 195>>}

\* payloads of 16, 17, 20, 24, 31, 32 and 34 bytes, in two byte patterns
GanPayloads ==
    {[i \in 1..n |-> (i * step + 11) % 256] :
        n \in {16, 17, 20, 24, 31, 32, 34}, step \in {7, 83}}

HelperNames == {"build_face_states", "from_facelet", "match_advertisement",
                "crc16_modbus", "decrypt", "gan_decoder"}

HelperInputs(name) ==
    IF name = "build_face_states" THEN FaceletStrings
    ELSE IF name = "from_facelet" THEN [cc : Receivers, facelet : PieceStrings]
    ELSE IF name = "match_advertisement"
    THEN [name : AdvertisedNames, uuids : SUBSET AdvertisedUuids]
    ELSE IF name = "crc16_modbus" THEN CrcInputs
    ELSE IF name = "gan_decoder"
    THEN [key : AesKeys, iv : GanIvs, payload : GanPayloads]
    ELSE DecryptInputs

\* No adapter takes part: the adapter fields stay as __init__ leaves them.
PureInit ==
    /\ kind = "none"
    /\ Unconnected
    /\ FreshFrames(NoData, SolvedCube)
    /\ NoSubscribers
    /\ fn_name \in HelperNames
    /\ fn_arg \in HelperInputs(fn_name)
    /\ fn_ret = <<>>
    /\ cubie = SolvedCube
    /\ turns = <<>>

\* the helper name returns value
Call(name, value) ==
    /\ fn_name = name
    /\ fn_ret = <<>>
    /\ fn_ret' = <<value>>
    /\ UNCHANGED <<kind, inst_vars, net_vars, task_vars, hist_vars,
                   frame_vars, reg_vars, battery_vars, fn_name, fn_arg,
                   cubie, turns>>

\* build_face_states(state_string)
CallBuildFaceStates ==
    Call("build_face_states",
         [face_states |-> build_face_states(fn_arg),
          is_solved |-> is_solved(fn_arg)])

\* cc.from_facelet(facelet)
CallFromFacelet ==
    Call("from_facelet", from_facelet_call(fn_arg.cc, fn_arg.facelet))

\* match_advertisement(name, service_uuids)
CallMatchAdvertisement ==
    Call("match_advertisement",
         match_advertisement(fn_arg.name, fn_arg.uuids))

\* _crc16_modbus(data)
CallCrc16Modbus == Call("crc16_modbus", crc16_modbus(fn_arg))

\* if self._is_encrypted(data): self._decrypt_in_place(data)
CallDecrypt == Call("decrypt", decrypt(fn_arg))

\* GanDecoder(key, iv): encode(payload), and decode of what encode returned
CallGanDecoder ==
    Call("gan_decoder",
         [encoded |-> encode(fn_arg.key, fn_arg.iv, fn_arg.payload),
          decoded |-> decode(fn_arg.key, fn_arg.iv,
                             encode(fn_arg.key, fn_arg.iv, fn_arg.payload))])

NextPure ==
    \/ CallBuildFaceStates
    \/ CallFromFacelet
    \/ CallMatchAdvertisement
    \/ CallCrc16Modbus
    \/ CallDecrypt
    \/ CallGanDecoder

SpecPure == PureInit /\ [][NextPure]_vars

(***************************************************************************)
(* Part 6 (SpecCube): the CubieCube class.  A behaviour applies moves to   *)
(* a new CubieCube and then hands the cube to one of the conversions:      *)
(* to_facelet and from_facelet, or the GAN full-state frame that a device  *)
(* holding the cube sends and _parse_gan_facelet decodes.                  *)
(***************************************************************************)
\* int(bits[start : start + n], 2) for a 0-based array of bits
RECURSIVE BitsInt(_, _, _)
BitsInt(bits, start, n) ==
    IF n = 0 THEN 0
    ELSE 2 * BitsInt(bits, start, n - 1) + bits[start + n - 1]

\* bit k (0 the highest) of the n-bit number x
BitOf(x, n, k) == (x \div (2 ^ (n - 1 - k))) % 2

\* the four offsets of the three callers: _parse_v2, _parse_v3, _parse_v4
GanLayouts == {<<12, 33, 47, 91>>, <<40, 61, 77, 121>>, <<32, 53, 69, 113>>}

\* The bits of a full-state frame for the cube cc: 7 corners (3 bits of
\* permutation each, then 2 bits of orientation each), 11 edges (4 bits of
\* permutation each, then 1 bit of orientation each); the last corner and
\* the last edge are not in the frame.
GanStateBits(cc, l) ==
    [p \in 0..(l[4] + 10) |->
        IF p >= l[4] THEN cc.ea[p - l[4]] % 2
        ELSE IF p >= l[3]
        THEN BitOf(cc.ea[(p - l[3]) \div 4] \div 2, 4, (p - l[3]) % 4)
        ELSE IF p >= l[2]
        THEN BitOf(cc.ca[(p - l[2]) \div 2] \div 8, 2, (p - l[2]) % 2)
        ELSE IF p >= l[1]
        THEN BitOf(cc.ca[(p - l[1]) \div 3] % 8, 3, (p - l[1]) % 3)
        ELSE 0]

\* _parse_gan_facelet, cchk after the corners 0 .. i - 1
RECURSIVE GanCornerCheck(_, _, _)
GanCornerCheck(bits, l, i) ==
    IF i = 0 THEN 3840
    ELSE Xor(GanCornerCheck(bits, l, i - 1)
             - 8 * BitsInt(bits, l[2] + (i - 1) * 2, 2),
             BitsInt(bits, l[1] + (i - 1) * 3, 3))

\* _parse_gan_facelet, echk after the edges 0 .. i - 1
RECURSIVE GanEdgeCheck(_, _, _)
GanEdgeCheck(bits, l, i) ==
    IF i = 0 THEN 0
    ELSE Xor(GanEdgeCheck(bits, l, i - 1),
             2 * BitsInt(bits, l[3] + (i - 1) * 4, 4)
             + BitsInt(bits, l[4] + (i - 1), 1))

\* (mutant) the last corner with the orientation left at 0
GanLastCornerFlat(cchk) == cchk % 8

\* cc.ca[7] = (cchk & 0xFF8) % 24 | (cchk & 0x7)
GanLastCorner(cchk) == (((cchk % 4096) - (cchk % 8)) % 24) + (cchk % 8)

\* _parse_gan_facelet(bits, l[1], l[2], l[3], l[4])
parse_gan_facelet(bits, l) ==
    to_facelet(
        [ca |-> [i \in 0..7 |->
                    IF i = 7 THEN GanLastCorner(GanCornerCheck(bits, l, 7))
                    ELSE 8 * BitsInt(bits, l[2] + i * 2, 2)
                         + BitsInt(bits, l[1] + i * 3, 3)],
         ea |-> [i \in 0..11 |->
                    IF i = 11 THEN GanEdgeCheck(bits, l, 11)
                    ELSE 2 * BitsInt(bits, l[3] + i * 4, 4)
                         + BitsInt(bits, l[4] + i, 1)]])

\* A new CubieCube; no adapter takes part.
CubeInit ==
    /\ kind = "none"
    /\ Unconnected
    /\ FreshFrames(NoData, SolvedCube)
    /\ NoSubscribers
    /\ NoCall

\* cubie.apply_move_index(m)
ApplyMoveIndex(m) ==
    /\ fn_ret = <<>>
    /\ \/ Len(turns) < MaxTurns
       \/ Len(turns) < MaxRepeats /\ \A i \in DOMAIN turns : turns[i] = m
    /\ cubie' = apply_move_index(cubie, m)
    /\ turns' = Append(turns, m)
    /\ UNCHANGED <<kind, inst_vars, net_vars, task_vars, hist_vars,
                   frame_vars, reg_vars, battery_vars, fn_name, fn_arg,
                   fn_ret>>

\* what a conversion of cubie returned
Converted(name, input, value) ==
    /\ fn_ret = <<>>
    /\ fn_name' = name
    /\ fn_arg' = input
    /\ fn_ret' = <<value>>
    /\ UNCHANGED <<kind, inst_vars, net_vars, task_vars, hist_vars,
                   frame_vars, reg_vars, battery_vars, cubie, turns>>

\* the string, the call of from_facelet on a new CubieCube, the string again
RoundTripOf(facelet, back) ==
    [facelet |-> facelet, back |-> back, again |-> to_facelet(back.cube)]

\* facelet = cubie.to_facelet(); back = CubieCube().from_facelet(facelet);
\* back.to_facelet()
RoundTrip ==
    Converted("round_trip", to_facelet(cubie),
              RoundTripOf(to_facelet(cubie),
                          from_facelet_call(SolvedCube, to_facelet(cubie))))

\* a device that holds cubie sends its full state in the layout l
ParseGanFacelet(l) ==
    Converted("parse_gan_facelet", l,
              parse_gan_facelet(GanStateBits(cubie, l), l))

NextCube ==
    \/ \E m \in 0..17 : ApplyMoveIndex(m)
    \/ RoundTrip
    \/ \E l \in GanLayouts : ParseGanFacelet(l)

SpecCube == CubeInit /\ [][NextCube]_vars

\* ------------------------------------------------------ claims C1 .. C8
Returned(t, op) == call[t].op = op /\ result[t] # "none"

\* The transport cooperated: no operation failed, no link was lost.
Cooperative == ~ops_failed /\ n_drops = 0

C2_ConnectDisconnectExclusive ==
    \A a \in Tasks, b \in Tasks :
        ~(/\ InConnect(a)
          /\ pc[a] \in {"stop", "stop2", "close", "establish", "hs"}
          /\ call[b].op = "disconnect"
          /\ pc[b] \in {"first", "stop", "stop2", "close"})

\* C3: is_connected (and available) is true only when the handshake of the
\* current session has completed, never while connect() is in its handshake.
C3_ConnectedOnlyAfterHandshake ==
    (is_connected \/ Available)
    => (hs_done /\ \A t \in Tasks : pc[t] # "hs")

\* C4: a connect() that fails returns with is_connected false.
C4_FailedConnectLeavesDisconnected ==
    \A t \in Tasks :
        (Returned(t, "connect") /\ result[t] = "raised") => ~ret_connected[t]

\* C5: connect() with an absent or mismatching device issues no transport
\* operation on any client.
C5_BadDeviceNoIo ==
    \A t \in Tasks : (InConnect(t) /\ ~call[t].dev) => ~did_io[t]

\* C6: disconnect() never raises, and is_connected is false when it returns.
C6_DisconnectNeverRaises ==
    \A t \in Tasks :
        Returned(t, "disconnect")
        => (result[t] = "ok" /\ ~ret_connected[t])

\* C7: is_connected becomes true only in a step in which a connect() returns
\* successfully; a transport-initiated close, and a disconnect() that
\* returns, leave is_connected false with the state subscribers notified.
C7_Step ==
    /\ (~is_connected /\ is_connected')
       => \E t \in Tasks : /\ call'[t].op = "connect"
                            /\ pc[t] # "idle"
                            /\ pc'[t] = "idle"
                            /\ result'[t] = "ok"
    /\ (n_drops' # n_drops) => (~is_connected' /\ ~seen_connected')
    /\ \A t \in Tasks :
           (call[t].op = "disconnect" /\ pc[t] # "idle" /\ pc'[t] = "idle")
           => (result'[t] = "ok" /\ ~is_connected' /\ ~seen_connected')

C7_Lifecycle == [][C7_Step]_vars

\* C8 as stated: when connect() runs on an instance holding a client, that
\* client has stopped notifying and is closed when establishment begins, and
\* it is not the current client when connect() returns.
OldClientGone(t, tolerant) ==
    /\ (pc[t] \in {"establish", "hs"})
       => \/ link[old_client[t]] # "up" /\ ~notifying[old_client[t]]
          \/ tolerant /\ old_client[t] \in close_failed
    /\ (result[t] # "none") => ret_client[t] # old_client[t]

Untouched == data = prev.data /\ cube = prev.cube /\ fired = <<>>

RECURSIVE GoCubeWire(_)
GoCubeWire(q) ==
    IF q = <<>> \/ Head(q) \div 2 > 5 THEN <<>>
    ELSE <<Turn(AXIS_PERM[Head(q) \div 2], IF Head(q) % 2 = 0 THEN "" ELSE "'")>>
         \o GoCubeWire(Tail(q))

RECURSIVE GanV1Wire(_)
GanV1Wire(q) ==
    IF q = <<>> \/ Head(q) \div 3 > 5 THEN <<>>
    ELSE <<Turn(Head(q) \div 3, <<"", "2", "'">>[(Head(q) % 3) + 1])>>
         \o GanV1Wire(Tail(q))

WireTurns(a, v, f) ==
    IF a = "gocube" THEN GoCubeWire(f.moves)
    ELSE IF v = "v1" THEN GanV1Wire(f.moves)
    ELSE IF v = "v2" THEN V2Moves(f.moves)
    ELSE IF \E i \in 1..6 : GanAxisBits[i] = f.axis THEN <<V3Turn(f)>>
    ELSE <<>>

RECURSIVE TurnAll(_, _)
TurnAll(c, q) ==
    IF q = <<>> THEN c
    ELSE TurnAll(IF Head(q).suffix = "2"
                 THEN apply_move_index(
                          apply_move_index(c, Head(q).face * 3), Head(q).face * 3)
                 ELSE apply_move_index(c, Head(q).face * 3 + Power(Head(q))),
                 Tail(q))

\* the last handler run applied and reported exactly the turns q, one at a
\* time and in the order of q
AppliedInOrder(q) ==
    /\ fired = [i \in 1..Len(q) |-> Notation(q[i])]
    /\ Len(trail) = Len(q)
    /\ \A i \in 1..Len(q) :
           trail[i].state_string = to_facelet(TurnAll(prev.cube, SubSeq(q, 1, i)))
    /\ cube = TurnAll(prev.cube, q)

\* C10 as stated: the turns of a move frame that is applied are applied to
\* the mirror and reported to the movement subscribers one at a time, in the
\* order in which the frame holds them.
C10_Original ==
    (n_frames >= 1 /\ applied)
    => AppliedInOrder(WireTurns(kind, version, last_frame))

\* C10 as amended: the turns of a move frame that is applied are applied and
\* reported one at a time; GoCube and GAN v1 take them in the order in which
\* the frame holds them, GAN v2 in the reverse of that order (last slot
\* first), and a GAN v3 frame holds one turn.
C10_TurnOrder ==
    (n_frames >= 1 /\ applied)
    => AppliedInOrder(IF kind = "gan" /\ version = "v2"
                      THEN Reverse(WireTurns(kind, version, last_frame))
                      ELSE WireTurns(kind, version, last_frame))

\* a GAN v2 frame with two different turns has been applied
C10_Witness ==
    /\ kind = "gan"
    /\ version = "v2"
    /\ applied
    /\ Len(fired) >= 2
    /\ fired[1] # fired[2]

\* ----------------------------------------------------- claims C11 .. C20
\* the turns the last handler run applied, in the order it took them
TurnsTaken ==
    IF kind = "gan" /\ version = "v2"
    THEN Reverse(WireTurns(kind, version, last_frame))
    ELSE WireTurns(kind, version, last_frame)

\* C11: a move frame that is applied fires one movement callback per turn
\* applied, and each callback sees state_string equal to the facelets of the
\* mirror after that turn and the turns before it, none of the later ones,
\* and last_move equal to the move it is called with.
C11_CallbackPerTurn ==
    (n_frames >= 1 /\ applied)
    => /\ Len(fired) = Len(TurnsTaken)
       /\ Len(trail) = Len(fired)
       /\ \A i \in 1..Len(trail) :
              /\ trail[i].cube = TurnAll(prev.cube, SubSeq(TurnsTaken, 1, i))
              /\ trail[i].state_string = to_facelet(trail[i].cube)
              /\ trail[i].last_move = fired[i]

\* a frame of two or more turns has been applied and reported
C11_Witness ==
    /\ n_frames >= 1
    /\ applied
    /\ Len(fired) >= 2
    /\ trail[1].state_string # trail[2].state_string

\* C12: no notification makes the notification handler raise.
C12_HandlerNeverRaises == ~raised

\* the letters of the colours of the piece at position p
PieceLetters(colors) == {GiikerColorLetter[colors[k]] : k \in DOMAIN colors}

\* the tiles of state_string that belong to the Giiker corner (edge) slot i
CornerSlotTiles(i) == {data.state_string[CORNER_FACE_INDICES[i][k] + 1] : k \in 1..3}
EdgeSlotTiles(i) == {data.state_string[EDGE_FACE_INDICES[i][k] + 1] : k \in 1..2}

\* the frame names no piece for the slot: the position nibble is out of
\* range, or the frame ends before the position or the orientation
NoPiece(positions, orientations, i, n) ==
    \/ i \notin DOMAIN positions
    \/ i \notin DOMAIN orientations
    \/ positions[i] <= 0
    \/ positions[i] > n

\* C13: a Giiker frame with a corner position outside 1..8 or an edge
\* position outside 1..12 is not aborted: the handler returns normally,
\* CubeState holds the 54 tiles of this frame, the tiles of exactly the slots
\* without a piece are '?', and every other slot shows the colours of the
\* piece the frame puts there.
C13_GiikerPlaceholder ==
    (kind = "giiker" /\ n_frames >= 1 /\ last_frame.raw # <<>>)
    => LET st == parse_cube_payload(decrypt(last_frame.raw))
       IN  /\ ~raised
           /\ Len(data.state_string) = 54
           /\ \A i \in 0..7 :
                  IF NoPiece(st.corner_positions, st.corner_orientations, i, 8)
                  THEN CornerSlotTiles(i) = {"?"}
                  ELSE CornerSlotTiles(i) =
                           PieceLetters(CORNER_COLORS[st.corner_positions[i]])
           /\ \A i \in 0..11 :
                  IF NoPiece(st.edge_positions, st.edge_orientations, i, 12)
                  THEN EdgeSlotTiles(i) = {"?"}
                  ELSE EdgeSlotTiles(i) =
                           PieceLetters(EDGE_COLORS[st.edge_positions[i]])
           /\ data.is_solved = is_solved(data.state_string)

\* a full frame with one corner position out of range has been handled
C13_Witness ==
    /\ kind = "giiker"
    /\ n_frames >= 1
    /\ Len(last_frame.raw) = 20
    /\ parse_cube_payload(decrypt(last_frame.raw)).corner_positions[0] = 0
    /\ CornerSlotTiles(0) = {"?"}
    /\ CornerSlotTiles(1) # {"?"}
    /\ notified = 1

\* the last handler run left CubeState alone, called no subscriber, sent no
\* acknowledgement and raised nothing
Dropped ==
    /\ data = prev.data
    /\ fired = <<>>
    /\ notified = 0
    /\ spawned = <<>>
    /\ ~raised

\* the plain text m has a non-zero CRC16/MODBUS residue over its declared
\* length
BadResidue(m) == crc16_modbus(Declared(m)) # 0

\* the plain text g is a valid frame
ValidFrame(g) == Len(Declared(g)) >= 3 /\ crc16_modbus(Declared(g)) = 0

\* the valid frames among the samples
ValidMsgs == {g \in QiYiMsgs : ValidFrame(g)}

\* m is g with the one byte at position i (from 1) altered
AlteredAt(g, m, i) ==
    /\ Len(m) = Len(g)
    /\ i \in 1..Len(g)
    /\ m[i] # g[i]
    /\ \A j \in 1..Len(g) : j # i => m[j] = g[j]

\* C14 as stated: a QiYi frame with a non-zero CRC residue over its
\* declared length, in particular a valid frame with any one byte altered,
\* is dropped: CubeState unchanged, no callback, no acknowledgement,
\* nothing raised.
C14_Original ==
    (/\ n_frames >= 1
     /\ last_frame.tail = 0
     /\ \/ BadResidue(last_frame.msg)
        \/ \E g \in ValidMsgs, i \in 1..48 :
               AlteredAt(g, last_frame.msg, i))
    => Dropped

\* C14 as amended: a QiYi frame with a non-zero CRC residue over its
\* declared length, in particular a valid frame with one byte altered that
\* lies within its declared length and is not the length byte, is dropped:
\* CubeState unchanged, no callback, no acknowledgement, nothing raised.
C14_CrcFailureDropped ==
    (/\ n_frames >= 1
     /\ last_frame.tail = 0
     /\ \/ BadResidue(last_frame.msg)
        \/ \E g \in ValidMsgs, i \in 1..48 :
               /\ AlteredAt(g, last_frame.msg, i)
               /\ i # 2
               /\ i <= g[2])
    => Dropped

\* a state frame has set CubeState, and a valid move frame with one facelet
\* byte altered has then been dropped
C14_Witness ==
    /\ n_frames >= 2
    /\ prev.data.state_string # <<>>
    /\ last_frame.tail = 0
    /\ \E g \in ValidMsgs, i \in 8..34 : AlteredAt(g, last_frame.msg, i)
    /\ BadResidue(last_frame.msg)
    /\ Dropped

\* the acknowledgement tasks a handler run has to leave for the plain text
\* m, with the content c
AckOnly(c) == <<[coro |-> "send_message", content |-> c]>>

\* C15 as stated: a CRC-valid QiYi frame with opcode 0x02 or 0x03 issues
\* exactly one acknowledgement, a task that writes bytes 2..6 of the
\* received message; any other frame issues none.
C15_Original ==
    (n_frames >= 1)
    => IF /\ last_frame.tail = 0
          /\ ValidFrame(last_frame.msg)
          /\ last_frame.msg[3] \in {2, 3}
       THEN spawned = AckOnly(SubSeq(last_frame.msg, 3, 7))
       ELSE spawned = <<>>

\* C15 as amended: a CRC-valid QiYi frame that begins with the start byte
\* 0xFE and has opcode 0x02 or 0x03 issues exactly one acknowledgement, a
\* task that writes bytes 2..6 of the received message, or bytes 2 to the
\* end of a message whose declared length is below 7; any other frame
\* issues none.
C15_AckPerFrame ==
    (n_frames >= 1)
    => IF /\ last_frame.tail = 0
          /\ ValidFrame(last_frame.msg)
          /\ last_frame.msg[1] = 254
          /\ last_frame.msg[3] \in {2, 3}
       THEN spawned = AckOnly(SubSeq(last_frame.msg, 3,
                                     Min(7, last_frame.msg[2])))
       ELSE spawned = <<>>

\* a valid move frame has been acknowledged with its bytes 2..6 and
\* handled to the end
C15_Witness ==
    /\ n_frames >= 1
    /\ last_frame.tail = 0
    /\ ValidFrame(last_frame.msg)
    /\ last_frame.msg[3] = 3
    /\ spawned = AckOnly(SubSeq(last_frame.msg, 3, 7))
    /\ fired # <<>>
    /\ ~raised

\* how often the handler run with the calls q called the subscriber cb in
\* the role r
Calls(q, r, cb) ==
    Cardinality({i \in 1..Len(q) : q[i].role = r /\ q[i].cb = cb})

\* C16: when a subscriber raises during a broadcast, every other
\* subscriber is called as often as when none raises, nothing leaves the
\* notification handler, and CubeState, the mirror and the move counter are
\* as when none raises.
C16_FailureIsolated ==
    (n_frames >= 1)
    => /\ ~raised
       /\ \A cb \in Callbacks \ failing, r \in {"state", "move"} :
              Calls(called, r, cb) = Calls(ideal.called, r, cb)
       /\ data = ideal.data
       /\ cube = ideal.cube
       /\ move_cnt = ideal.move_cnt

\* C17: a call of the unsubscribe handle of cb leaves the state subscribers
\* without cb and otherwise as they were (so a further call changes
\* nothing), and leaves the movement subscribers alone;
\* remove_movement_callback of a callback that is not registered changes
\* neither set.
C17_UnsubscribeIdempotent ==
    /\ last_op.op = "unsubscribe"
       => /\ state_callbacks = last_op.state \ {last_op.cb}
          /\ movement_callbacks = last_op.movement
    /\ (last_op.op = "remove" /\ last_op.cb \notin last_op.movement)
       => /\ state_callbacks = last_op.state
          /\ movement_callbacks = last_op.movement

\* the handle of a callback was called when the callback was no longer
\* registered, with another state subscriber and a movement subscriber in
\* place
C17_Witness ==
    /\ last_op.op = "unsubscribe"
    /\ last_op.cb \notin last_op.state
    /\ last_op.state # {}
    /\ last_op.movement # {}
    /\ state_callbacks = last_op.state

\* C18: a request_battery() that was in flight, with no notification since
\* it was issued, when a second request_battery() was issued is not resolved
\* by the next battery notification: that notification resolves only the
\* newest request, and the earlier one returns None.
C18_OnlyNewestResolved ==
    \A r \in Requests :
        (req[r].pc = "done" /\ req[r].overtaken) => req[r].result = -1

\* C19: state_string, when present, has length 54, holds only the letters
\* U, R, F, D, L, B, and shows at the centre indices 4, 13, 22, 31, 40, 49
\* the letters U, R, F, D, L, B.
C19_StateStringWellFormed ==
    data.state_string # <<>>
    => /\ Len(data.state_string) = 54
       /\ \A i \in 1..Len(data.state_string) :
              data.state_string[i] \in {"U", "R", "F", "D", "L", "B"}
       /\ \A k \in 0..5 : data.state_string[9 * k + 5] = FaceLetters[k]

\* the colour names of face_states, for the faces U, R, F, D, L, B
FaceColour == Arr(<<"White", "Red", "Green", "Yellow", "Orange", "Blue">>)

\* the nine tiles of face k of state_string all show the letter of face k
FaceShown(k) ==
    /\ Len(data.state_string) >= 9 * k + 9
    /\ \A i \in (9 * k + 1)..(9 * k + 9) :
           data.state_string[i] = FaceLetters[k]

\* C20: the faces true in face_states are exactly those whose nine tiles in
\* state_string all show that face's letter, and is_solved is true exactly
\* when all six are.
C20_DerivedFromString ==
    /\ \A k \in 0..5 :
           (/\ FaceColour[k] \in DOMAIN data.face_states
            /\ data.face_states[FaceColour[k]]) <=> FaceShown(k)
    /\ data.is_solved <=> \A k \in 0..5 : FaceShown(k)

\* the same for a state_string of the full length
C20_FullLength ==
    Len(data.state_string) >= 54 => C20_DerivedFromString

\* ---------------------------------------------------- claims C21 .. C30
Centres == {ct_facelet[k] + 1 : k \in 0..5}

\* C21: build_face_states reports the solved string as solved, every face
\* true; with one tile off the centres replaced by another letter it
\* reports false for the face whose block holds the tile, true for the
\* other five, and is_solved false.
C21_SolvedFaces ==
    (fn_name = "build_face_states" /\ fn_ret # <<>>)
    => /\ fn_arg = SolvedString
          => /\ fn_ret[1].is_solved
             /\ \A c \in DOMAIN COLOR_FACE_MAPPING : fn_ret[1].face_states[c]
       /\ \A i \in (1..54) \ Centres, l \in Letters :
              (l # SolvedString[i] /\ fn_arg = [SolvedString EXCEPT ![i] = l])
              => /\ ~fn_ret[1].is_solved
                 /\ \A c \in DOMAIN COLOR_FACE_MAPPING :
                        fn_ret[1].face_states[c]
                        = (COLOR_FACE_MAPPING[c] # FaceLetters[(i - 1) \div 9])

\* build_face_states has returned on a string with one tile replaced
C21_Witness ==
    /\ fn_name = "build_face_states"
    /\ fn_ret # <<>>
    /\ \E i \in (1..54) \ Centres, l \in Letters :
           /\ l # SolvedString[i]
           /\ fn_arg = [SolvedString EXCEPT ![i] = l]
           /\ ~fn_ret[1].face_states["Blue"]
           /\ fn_ret[1].face_states["Red"]

\* every corner and edge slot is decoded from the letters of facelet: the
\* slot does not keep the value the receiver held
AllDecoded(facelet) ==
    LET f == [i \in 0..53 |-> CenterFind(facelet, facelet[i + 1])]
    IN  /\ \A i \in 0..7 : FromFaceletCorner(-1, f, i) # -1
        /\ \A i \in 0..11 : FromFaceletEdge(-1, f, i) # -1

\* C22: from_facelet never raises; when it returns the invalid sentinel the
\* receiver's corner and edge arrays are as before; it returns the receiver
\* only for a string of at least 54 letters from which every corner and
\* edge slot was decoded.
C22_NeverRaisesNeverGuesses ==
    (fn_name = "from_facelet" /\ fn_ret # <<>>)
    => /\ fn_ret[1].ret # "raised"
       /\ fn_ret[1].ret = "invalid" => fn_ret[1].cube = fn_arg.cc
       /\ fn_ret[1].ret = "self"
          => /\ Len(fn_arg.facelet) >= 54
             /\ AllDecoded(fn_arg.facelet)

\* some corner of cc is twisted and some edge of cc is flipped
Scrambled(cc) ==
    /\ \E i \in 0..7 : cc.ca[i] \div 8 # 0
    /\ \E i \in 0..11 : cc.ea[i] % 2 = 1

\* C23: for a CubieCube reached from the solved one by moves, to_facelet,
\* then from_facelet into a new CubieCube, then to_facelet gives the same
\* string of 54 letters, and from_facelet gives the same corner and edge
\* arrays.
C23_RoundTrip ==
    (fn_name = "round_trip" /\ fn_ret # <<>>)
    => /\ Len(fn_ret[1].facelet) = 54
       /\ fn_ret[1].back.ret = "self"
       /\ fn_ret[1].back.cube = cubie
       /\ fn_ret[1].again = fn_ret[1].facelet

\* the round trip of a cube two moves away with twisted and flipped pieces
C23_Witness ==
    /\ fn_name = "round_trip"
    /\ fn_ret # <<>>
    /\ Len(turns) = 2
    /\ Scrambled(cubie)
    /\ fn_ret[1].facelet # SolvedString

\* the sequence of n copies of m
Copies(m, n) == [i \in 1..n |-> m]

\* C24: a quarter turn 3 * axis or 3 * axis + 2 applied four times to the
\* solved CubieCube, and a half turn 3 * axis + 1 applied twice, give a
\* cube whose facelet string is the solved string.
C24_FourQuarterTurns ==
    \A m \in 0..17 :
        (turns = IF m % 3 = 1 THEN Copies(m, 2) ELSE Copies(m, 4))
        => to_facelet(cubie) = SolvedString

\* F' was applied four times
C24_Witness ==
    /\ turns = Copies(8, 4)
    /\ fn_ret = <<>>

\* the sum of the n numbers q[0] .. q[n - 1]
RECURSIVE SumOf(_, _)
SumOf(q, n) == IF n = 0 THEN 0 ELSE q[n - 1] + SumOf(q, n - 1)

\* the parity of the arrangement q of 0 .. n - 1: its inversions mod 2
Parity(q, n) ==
    Cardinality({ij \in (0..(n - 1)) \X (0..(n - 1)) :
                    ij[1] < ij[2] /\ q[ij[1]] > q[ij[2]]}) % 2

\* C25: a CubieCube reached from the solved one by apply_move_index has
\* corner slots that are a permutation of 0..7 with orientations in 0..2
\* that sum to 0 mod 3, edge slots that are a permutation of 0..11 with
\* orientations in 0..1 that sum to 0 mod 2, and corner and edge
\* permutations of the same parity.
C25_CubeInvariants ==
    LET cp == [i \in 0..7 |-> cubie.ca[i] % 8]
        co == [i \in 0..7 |-> cubie.ca[i] \div 8]
        ep == [i \in 0..11 |-> cubie.ea[i] \div 2]
        eo == [i \in 0..11 |-> cubie.ea[i] % 2]
    IN  /\ {cp[i] : i \in 0..7} = 0..7
        /\ \A i \in 0..7 : co[i] \in 0..2
        /\ SumOf(co, 8) % 3 = 0
        /\ {ep[i] : i \in 0..11} = 0..11
        /\ \A i \in 0..11 : cubie.ea[i] \in 0..23
        /\ SumOf(eo, 12) % 2 = 0
        /\ Parity(cp, 8) = Parity(ep, 12)

\* two moves have given an odd permutation with twisted and flipped pieces
C25_Witness ==
    /\ Len(turns) = 2
    /\ Scrambled(cubie)
    /\ Parity([i \in 0..7 |-> cubie.ca[i] % 8], 8) = 1

\* C29: for a cube reached by moves, _parse_gan_facelet, given the first 7
\* corners and the first 11 edges, returns the facelet string of the cube:
\* the 8th corner and the 12th edge it computes are those of the cube.
C29_LastPiecesRebuilt ==
    (fn_name = "parse_gan_facelet" /\ fn_ret # <<>>)
    => /\ fn_ret[1] = to_facelet(cubie)
       /\ GanLastCorner(GanCornerCheck(GanStateBits(cubie, fn_arg), fn_arg, 7))
          = cubie.ca[7]
       /\ GanEdgeCheck(GanStateBits(cubie, fn_arg), fn_arg, 11) = cubie.ea[11]

\* the frame of a cube whose last corner is twisted and whose last edge is
\* flipped and not at home was decoded
C29_Witness ==
    /\ fn_name = "parse_gan_facelet"
    /\ fn_ret # <<>>
    /\ cubie.ca[7] \div 8 # 0
    /\ cubie.ca[7] % 8 # 7
    /\ cubie.ea[11] % 2 = 1
    /\ cubie.ea[11] \div 2 # 11

\* the entries of the static list that match by name, and by service UUID
ByName(name) ==
    {k \in DOMAIN CUBE_MODELS :
        \E i \in DOMAIN CUBE_MODELS[k].name_prefixes :
            StartsWith(name, CUBE_MODELS[k].name_prefixes[i])}
ByUuid(uuids) ==
    {k \in DOMAIN CUBE_MODELS :
        \E i \in DOMAIN CUBE_MODELS[k].service_uuids, suuid \in uuids :
            Lower(CUBE_MODELS[k].service_uuids[i]) = Lower(suuid)}
First(S) == CHOOSE k \in S : \A j \in S : k <= j

\* C26: match_advertisement returns the first entry whose name prefix
\* matches when some entry matches by name; only when none does, the first
\* entry whose service UUIDs meet the advertised ones, compared without
\* regard to case; otherwise none.
C26_NameMatchFirst ==
    (fn_name = "match_advertisement" /\ fn_ret # <<>>)
    => fn_ret[1]
       = IF ByName(fn_arg.name) # {}
         THEN CUBE_MODELS[First(ByName(fn_arg.name))].cube_type
         ELSE IF ByUuid(fn_arg.uuids) # {}
         THEN CUBE_MODELS[First(ByUuid(fn_arg.uuids))].cube_type
         ELSE "none"

\* C27 as stated: _crc16_modbus maps 01 03 00 00 00 0A to 0xC5CD.
C27_Original ==
    (fn_name = "crc16_modbus" /\ fn_ret # <<>> /\ fn_arg = ModbusRequest)
    => fn_ret[1] = 50637

\* C27: _crc16_modbus maps 01 03 00 00 00 0A to 0xCDC5, the value whose low
\* byte C5 and high byte CD follow the request on the wire.
C27_KnownVector ==
    (fn_name = "crc16_modbus" /\ fn_ret # <<>> /\ fn_arg = ModbusRequest)
    => fn_ret[1] = 52677

\* _crc16_modbus has returned on the request
C27_Witness ==
    /\ fn_name = "crc16_modbus"
    /\ fn_arg = ModbusRequest
    /\ fn_ret # <<>>
    /\ fn_ret[1] \in 0..65535

\* the frame is marked encrypted: byte 18 is 0xA7
Marked(raw) == Len(raw) >= 19 /\ raw[19] = 167

\* the key bytes for byte i (from 0) of the frame raw, whose byte 19 holds
\* the two offsets
KeyOne(raw, i) == DECRYPTION_KEY[((raw[20] \div 16) + i) % 36]
KeyTwo(raw, i) == DECRYPTION_KEY[((raw[20] % 16) + i) % 36]

\* C28 as stated: the first 20 bytes of a marked frame are decoded as
\* cipher[i] - key[(off1 + i) mod N] - key[(off2 + i) mod N] mod 256, a
\* frame without the mark is left as it is.
C28_Original ==
    (fn_name = "decrypt" /\ fn_ret # <<>>)
    => IF Marked(fn_arg)
       THEN Len(fn_arg) >= 20
            => \A i \in 0..19 :
                   fn_ret[1][i + 1]
                   = (fn_arg[i + 1] + 512 - KeyOne(fn_arg, i)
                      - KeyTwo(fn_arg, i)) % 256
       ELSE fn_ret[1] = fn_arg

\* C28: the first 20 bytes of a marked frame of at least 20 bytes are
\* decoded as cipher[i] + key[(off1 + i) mod N] + key[(off2 + i) mod N]
\* mod 256, with the offsets of the frame as it arrived, and its later
\* bytes are kept; a frame without the mark, and a marked frame of 19
\* bytes, is left as it is.
C28_AdditiveCipher ==
    (fn_name = "decrypt" /\ fn_ret # <<>>)
    => IF Marked(fn_arg) /\ Len(fn_arg) >= 20
       THEN /\ Len(fn_ret[1]) = Len(fn_arg)
            /\ \A i \in 0..19 :
                   fn_ret[1][i + 1]
                   = (fn_arg[i + 1] + KeyOne(fn_arg, i) + KeyTwo(fn_arg, i))
                     % 256
            /\ \A i \in 21..Len(fn_arg) : fn_ret[1][i] = fn_arg[i]
       ELSE fn_ret[1] = fn_arg

\* a marked frame with two different offsets was decoded
C28_Witness ==
    /\ fn_name = "decrypt"
    /\ fn_ret # <<>>
    /\ Marked(fn_arg)
    /\ Len(fn_arg) >= 20
    /\ fn_arg[20] \div 16 # fn_arg[20] % 16
    /\ fn_arg[20] % 16 # 0
    /\ fn_ret[1] # fn_arg

\* C30: on the GoCube adapter a rotation frame of one or more moves leaves
\* exactly one scheduled state re-request, whatever the number of its
\* moves, and a full-state reply of 54 tiles leaves state_string as the
\* string of the reply and the mirror as the cube of that string.
C30_OneReRequestAndResync ==
    (kind = "gocube" /\ n_frames >= 1)
    => IF "body" \in DOMAIN last_frame
       THEN Len(last_frame.body) >= 6 * 9
            => /\ ~raised
               /\ data.state_string = GoCubeFacelet(last_frame.body)
               /\ to_facelet(cube) = data.state_string
       ELSE Len(last_frame.moves) >= 1
            => spawned = <<"request_state">>

(***************************************************************************)
(* claims C31 .. C40                                                       *)
(***************************************************************************)
\* a face letter, alone or followed by ', 2 or 2'
ValidNotations ==
    {FaceLetters[k] \o sfx : k \in 0..5, sfx \in {"", "'", "2", "2'"}}

\* C31: last_move, when present, and every argument handed to a movement
\* callback is a face letter U, R, F, D, L, B, alone or followed by ', 2
\* or 2'.
C31_ValidNotation ==
    /\ data.last_move \in ValidNotations \cup {"none"}
    /\ \A i \in 1..Len(fired) : fired[i] \in ValidNotations

\* the turns made between the stored counter cur and the counter cnt of a
\* frame (the counter is one byte)
TurnsSince(cnt, cur) == (cnt + 256 - cur) % 256

\* C32: a GAN v1 or v2 history frame with a new counter applies and reports
\* no more turns than were made since the stored counter: the turns of its
\* history that an earlier frame brought are not applied again.
C32_HistoryNotReapplied ==
    [][(/\ kind = "gan"
        /\ version \in {"v1", "v2"}
        /\ n_frames' = n_frames + 1
        /\ move_cnt # -1
        /\ last_frame'.cnt # move_cnt)
       => Len(fired') <= TurnsSince(last_frame'.cnt, move_cnt)]_vars

\* C33: decode(encode(p)) is p for every payload of 16 to 32 bytes, with and
\* without an IV; with an IV the bytes of encode(p) outside the first and
\* the last 16 bytes are those of p, and decode undoes the last block
\* before the first (the two overlap below 32 bytes).
C33_DecoderRoundTrip ==
    (fn_name = "gan_decoder" /\ fn_ret # <<>>)
    => /\ Len(fn_arg.payload) \in 16..32 => fn_ret[1].decoded = fn_arg.payload
       /\ Len(fn_ret[1].encoded) = Len(fn_arg.payload)
       /\ \A i \in 17..(Len(fn_arg.payload) - 16) :
              fn_ret[1].encoded[i] = fn_arg.payload[i]
       /\ fn_arg.iv # <<>>
          => fn_ret[1].encoded
             = EncodeLast(fn_arg.key, fn_arg.iv,
                          EncodeFirst(fn_arg.key, fn_arg.iv, fn_arg.payload))

\* a payload whose two blocks overlap went through encode and decode with
\* an IV, and encode changed bytes of both blocks
C33_Witness ==
    /\ fn_name = "gan_decoder"
    /\ fn_ret # <<>>
    /\ fn_arg.iv # <<>>
    /\ Len(fn_arg.payload) \in 17..31
    /\ fn_ret[1].encoded[1] # fn_arg.payload[1]
    /\ fn_ret[1].encoded[Len(fn_arg.payload)]
       # fn_arg.payload[Len(fn_arg.payload)]
    /\ fn_ret[1].decoded = fn_arg.payload

\* the last notification was a full-state frame or a move frame that the
\* handler took up and ran to its end
HandledStateOrMove ==
    /\ n_frames >= 1
    /\ ~raised
    /\ IF "body" \in DOMAIN last_frame THEN Len(last_frame.body) >= 6 * 9
       ELSE applied

\* C34: on the GoCube and GAN adapters, after every handled full-state or
\* move frame state_string is the facelet string of the adapter's
\* CubieCube.
C34_MirrorInStep ==
    (kind \in {"gocube", "gan"} /\ HandledStateOrMove)
    => data.state_string = to_facelet(cube)

\* the session of the current client is established: connect() has stored
\* the client and completed its handshake, and the link is up
SessionEstablished ==
    /\ client # 0
    /\ link[client] = "up"
    /\ hs_done
    /\ is_connected

\* C35: the disconnected callback of a client that a later connect() has
\* superseded, delivered when the new session is established, leaves
\* is_connected true.
C35_StaleCloseIgnored ==
    [][\A c \in Clients :
          (/\ n_drops' = n_drops + 1
           /\ link[c] = "up"
           /\ link'[c] = "down"
           /\ c # client
           /\ SessionEstablished)
          => is_connected']_vars

\* C36: a notification handed to the handler after disconnect() has
\* returned leaves CubeState and the mirror as they were, runs no state
\* and no movement broadcast, and creates no task that writes.
C36_LateFrameInert ==
    [][(Disconnected /\ n_frames' = n_frames + 1)
       => /\ data' = data
          /\ cube' = cube
          /\ fired' = <<>>
          /\ notified' = 0
          /\ spawned' = <<>>]_vars

\* the turns of the GAN v2 or v3 move frame f in the order _apply_moves
\* takes them
GanTurns(v, f) ==
    IF v = "v2" THEN Reverse(WireTurns("gan", v, f)) ELSE WireTurns("gan", v, f)

\* C37: on GAN v2 and v3 (v4 reads the same fields) a move frame that
\* meets the stored counter -1 only stores its counter: the mirror and
\* CubeState stay and no movement callback fires; a move frame that meets
\* another stored counter than its own has its turns applied and reported
\* and its counter stored.
C37_BaselineThenApplied ==
    [][(kind = "gan" /\ version \in {"v2", "v3"} /\ n_frames' = n_frames + 1)
       => IF move_cnt = -1
          THEN /\ move_cnt' = last_frame'.cnt
               /\ cube' = cube
               /\ data' = data
               /\ fired' = <<>>
          ELSE last_frame'.cnt # move_cnt
               => /\ move_cnt' = last_frame'.cnt
                  /\ fired' = [i \in 1..Len(GanTurns(version, last_frame')) |->
                                  Notation(GanTurns(version, last_frame')[i])]
                  /\ cube' = TurnAll(cube, GanTurns(version, last_frame'))]_vars

\* C38: on GAN v2 and v3 the first move frame that a session takes (the
\* handler runs under a client under which it has not run before) only
\* stores its counter, whatever counter the session before has left: the
\* mirror and CubeState stay and no movement callback fires.
C38_NewSessionBaseline ==
    [][(/\ kind = "gan"
        /\ version \in {"v2", "v3"}
        /\ n_frames' = n_frames + 1
        /\ client # 0
        /\ frame_client # client)
       => /\ move_cnt' = last_frame'.cnt
          /\ cube' = cube
          /\ data' = data
          /\ fired' = <<>>]_vars

\* C39: a broadcast in which a subscriber unsubscribes itself, or registers
\* or removes another subscriber, from inside its callback does not raise,
\* and calls once every subscriber that was registered when the broadcast
\* began and has not been removed.
C39_ReentrantBroadcast ==
    /\ last_op.op = "notify_state"
       => /\ ~raised
          /\ \A cb \in last_op.state \cap state_callbacks :
                 Calls(called, "state", cb) = 1
    /\ last_op.op = "notify_movement"
       => /\ ~raised
          /\ \A cb \in last_op.movement \cap movement_callbacks :
                 Calls(called, "move", cb) = 1

\* C40: once _set_auto_connect(False) has completed (its disconnect() has
\* returned) the adapter is not connected while auto_connect_enabled is
\* false, whatever connect attempt of the host was in flight.
C40_OffStaysDisconnected ==
    (/\ ~auto_connect_enabled
     /\ \E t \in Tasks : call[t].op = "disconnect" /\ result[t] = "ok")
    => ~is_connected

====
